---- MODULE Spec2Model ----
(***************************************************************************)
(* zavodil/oracle-ark: the concurrent multi-source fetch / aggregate /     *)
(* validate pipeline of src/parallel.rs, with the aggregation functions of *)
(* src/aggregation.rs and the data model of src/types.rs.                  *)
(*                                                                         *)
(* Numbers.  An f64 is modelled by an exact rational <<n, d>> in lowest    *)
(* terms with d > 0; binary rounding is not modelled, so nothing below     *)
(* rests on the order of a floating point summation.                       *)
(* Strings are TLC strings, built with \o as format!() and join() build    *)
(* them.  Option<T> is a sequence of length 0 (None) or 1 (Some).          *)
(***************************************************************************)
EXTENDS Integers, Sequences, FiniteSets, TLC

(***************************************************************************)
(* Bounds of the model.                                                    *)
(***************************************************************************)
MaxRequests == 2
MaxSources == 2
MaxConcurrent == 2
RequestTimeoutSecs == 1
MaxRequestSources == 3
MaxFetchSources == 4
MaxPrices == 3
MaxMethodPrices == 4
MaxBatchLookups == 3
MaxBatchSize == 11

(***************************************************************************)
(* f64 arithmetic on exact rationals.                                      *)
(***************************************************************************)
Abs(i) == IF i < 0 THEN -i ELSE i

RECURSIVE GCD(_, _)
GCD(a, b) == IF b = 0 THEN a ELSE GCD(b, a % b)

Rat(n, d) ==
    LET g == GCD(Abs(n), Abs(d))
        s == IF d < 0 THEN -1 ELSE 1
    IN  <<(s * n) \div g, (s * d) \div g>>

F(i) == <<i, 1>>
RAdd(a, b) == Rat(a[1] * b[2] + b[1] * a[2], a[2] * b[2])
RSub(a, b) == Rat(a[1] * b[2] - b[1] * a[2], a[2] * b[2])
RMul(a, b) == Rat(a[1] * b[1], a[2] * b[2])
RDiv(a, b) == Rat(a[1] * b[2], a[2] * b[1])
RLt(a, b) == a[1] * b[2] < b[1] * a[2]
RGt(a, b) == RLt(b, a)
RLe(a, b) == ~RLt(b, a)

\* f64::MAX and f64::MIN: above and below every price of the bounded domain.
F64_MAX == <<1, 0>>
F64_MIN == <<-1, 0>>

(***************************************************************************)
(* format!("{:.p}", x): fixed notation with p decimals, round half to even *)
(***************************************************************************)
RECURSIVE Pow10(_)
Pow10(p) == IF p = 0 THEN 1 ELSE 10 * Pow10(p - 1)

RECURSIVE PadLeft(_, _)
PadLeft(s, w) == IF Len(s) >= w THEN s ELSE PadLeft("0" \o s, w)

FormatFixed(x, p) ==
    LET a     == Abs(x[1])
        d     == x[2]
        whole == a \div d
        fr    == (a % d) * Pow10(p)
        q     == fr \div d
        r     == fr % d
        up    == (2 * r > d) \/ (2 * r = d /\ q % 2 = 1)
        q1    == IF up THEN q + 1 ELSE q
        w2    == IF q1 = Pow10(p) THEN whole + 1 ELSE whole
        q2    == IF q1 = Pow10(p) THEN 0 ELSE q1
    IN  (IF x[1] < 0 THEN "-" ELSE "") \o ToString(w2)
            \o (IF p = 0 THEN "" ELSE "." \o PadLeft(ToString(q2), p))

\* Vec<String>::join(sep)
RECURSIVE Join(_, _)
Join(v, sep) ==
    IF Len(v) = 0 THEN ""
    ELSE IF Len(v) = 1 THEN v[1]
    ELSE v[1] \o sep \o Join(Tail(v), sep)

(***************************************************************************)
(* types.rs                                                                *)
(***************************************************************************)
Number(n)   == [tag |-> "Number",  num |-> n,    text |-> "", bool |-> FALSE]
Text(s)     == [tag |-> "Text",    num |-> F(0), text |-> s,  bool |-> FALSE]
Boolean(b)  == [tag |-> "Boolean", num |-> F(0), text |-> "", bool |-> b]

AggregationMethod == {"Average", "Median", "WeightedAvg"}

SourcePrice(name, v, ts) == [source_name |-> name, value |-> v, timestamp |-> ts]

\* DataValue::as_number: Option<f64>
as_number(v) ==
    CASE v.tag = "Number"  -> <<v.num>>
      [] v.tag = "Boolean" -> <<IF v.bool THEN F(1) ELSE F(0)>>
      [] v.tag = "Text"    -> <<>>

MAX_TOKENS_PER_REQUEST == 10

None == <<>>
Some(v) == <<v>>

\* PriceSource: name, id: Option<String>, custom: Option<CustomSourceConfig>
PriceSource(name, id, custom) == [name |-> name, id |-> id, custom |-> custom]

DataRequest(id, sources, method, min) ==
    [id |-> id, sources |-> sources, aggregation_method |-> method, min_sources_num |-> min]

PriceData(v, ts, srcs) == [value |-> v, timestamp |-> ts, sources |-> srcs]

\* a variant that leaves the message out
DataResponse_no_message(id, data, message) == [id |-> id, data |-> data, message |-> None]

DataResponse(id, data, message) == [id |-> id, data |-> data, message |-> message]

(***************************************************************************)
(* aggregation.rs                                                          *)
(***************************************************************************)
Ok(v)  == [ok |-> TRUE,  val |-> v,    err |-> ""]
Err(e) == [ok |-> FALSE, val |-> F(0), err |-> e]

\* a variant that collects the Number readings only
RECURSIVE numbers_of_no_boolean(_)
numbers_of_no_boolean(prices) ==
    IF Len(prices) = 0 THEN <<>>
    ELSE (IF prices[1].value.tag = "Number" THEN <<prices[1].value.num>> ELSE <<>>)
             \o numbers_of_no_boolean(Tail(prices))

\* prices.iter().filter_map(|p| p.value.as_number()).collect()
RECURSIVE numbers_of(_)
numbers_of(prices) ==
    IF Len(prices) = 0 THEN <<>>
    ELSE as_number(prices[1].value) \o numbers_of(Tail(prices))

\* numbers.iter().sum(): a left fold from 0.0
RECURSIVE SumFrom(_, _)
SumFrom(acc, numbers) ==
    IF Len(numbers) = 0 THEN acc
    ELSE SumFrom(RAdd(acc, numbers[1]), Tail(numbers))

\* a variant that divides by the number of prices, Text readings included
calculate_average_by_len(prices) ==
    LET numbers == numbers_of(prices)
    IN  IF Len(numbers) = 0 THEN Err("No numeric values to aggregate")
        ELSE Ok(RDiv(SumFrom(F(0), numbers), F(Len(prices))))

calculate_average(prices) ==
    LET numbers == numbers_of(prices)
    IN  IF Len(numbers) = 0 THEN Err("No numeric values to aggregate")
        ELSE Ok(RDiv(SumFrom(F(0), numbers), F(Len(numbers))))

\* sort_by(|a, b| a.partial_cmp(b).unwrap()): a stable ascending sort
RECURSIVE InsertSorted(_, _)
InsertSorted(x, s) ==
    IF Len(s) = 0 THEN <<x>>
    ELSE IF RLt(x, s[1]) THEN <<x>> \o s
    ELSE <<s[1]>> \o InsertSorted(x, Tail(s))

RECURSIVE SortAscending(_)
SortAscending(s) ==
    IF Len(s) = 0 THEN <<>>
    ELSE InsertSorted(s[Len(s)], SortAscending(SubSeq(s, 1, Len(s) - 1)))

\* a variant that takes the middle of the values as they arrived
calculate_median_unsorted(prices) ==
    LET numbers == numbers_of(prices)
        len     == Len(numbers)
    IN  IF Len(numbers) = 0 THEN Err("No numeric values to aggregate")
        ELSE IF len % 2 = 0
             THEN Ok(RDiv(RAdd(numbers[len \div 2], numbers[len \div 2 + 1]), F(2)))
             ELSE Ok(numbers[len \div 2 + 1])

calculate_median(prices) ==
    LET numbers       == numbers_of(prices)
        sorted_prices == SortAscending(numbers)
        len           == Len(sorted_prices)
    IN  IF Len(numbers) = 0 THEN Err("No numeric values to aggregate")
        ELSE IF len % 2 = 0
             THEN Ok(RDiv(RAdd(sorted_prices[len \div 2], sorted_prices[len \div 2 + 1]), F(2)))
             ELSE Ok(sorted_prices[len \div 2 + 1])

calculate_weighted_average(prices) == calculate_average(prices)

aggregate_prices(prices, method) ==
    IF Len(prices) = 0 THEN Err("No prices to aggregate")
    ELSE CASE method = "Average"     -> calculate_average(prices)
           [] method = "Median"      -> calculate_median(prices)
           [] method = "WeightedAvg" -> calculate_weighted_average(prices)

\* the min/max loop of calculate_price_deviation: <<min_price, max_price>>
RECURSIVE MinMaxFrom(_, _)
MinMaxFrom(mm, numbers) ==
    IF Len(numbers) = 0 THEN mm
    ELSE LET price == numbers[1]
             mn    == IF RLt(price, mm[1]) THEN price ELSE mm[1]
             mx    == IF RGt(price, mm[2]) THEN price ELSE mm[2]
         IN  MinMaxFrom(<<mn, mx>>, Tail(numbers))

\* a variant that takes the spread relative to the maximum
calculate_price_deviation_by_max(prices) ==
    LET numbers == numbers_of(prices)
        mm      == MinMaxFrom(<<F64_MAX, F64_MIN>>, numbers)
    IN  IF Len(numbers) < 2 THEN F(0)
        ELSE IF mm[1] = F(0) THEN F(100)
        ELSE RMul(RDiv(RSub(mm[2], mm[1]), mm[2]), F(100))

calculate_price_deviation(prices) ==
    LET numbers == numbers_of(prices)
        mm      == MinMaxFrom(<<F64_MAX, F64_MIN>>, numbers)
    IN  IF Len(numbers) < 2 THEN F(0)
        ELSE IF mm[1] = F(0) THEN F(100)
        ELSE RMul(RDiv(RSub(mm[2], mm[1]), mm[1]), F(100))


(***************************************************************************)
(* parallel.rs: process_fetched_data                                       *)
(***************************************************************************)
\* a variant that takes the timestamp of the first reading
MaxTimestamp_first(acc, prices) ==
    IF Len(prices) = 0 THEN acc ELSE prices[1].timestamp

\* a variant that takes the maximum over the numeric readings only
RECURSIVE MaxTimestamp_numeric(_, _)
MaxTimestamp_numeric(acc, prices) ==
    IF Len(prices) = 0 THEN acc
    ELSE MaxTimestamp_numeric(
             IF as_number(prices[1].value) # None /\ prices[1].timestamp > acc
             THEN prices[1].timestamp ELSE acc,
             Tail(prices))

RECURSIVE MaxTimestamp(_, _)
MaxTimestamp(acc, prices) ==
    IF Len(prices) = 0 THEN acc
    ELSE MaxTimestamp(IF prices[1].timestamp > acc THEN prices[1].timestamp ELSE acc,
                      Tail(prices))

\* a variant that takes any successful reading for a numeric one
has_numeric_any(source_prices) == Len(source_prices) > 0

\* source_prices.iter().any(|p| p.value.as_number().is_some())
has_numeric(source_prices) ==
    \E i \in 1..Len(source_prices) : as_number(source_prices[i].value) # None

\* filter_map(|p| p.value.as_number().map(|n| format!("{}: {:.6}", p.source_name, n)))
RECURSIVE source_details(_)
source_details(prices) ==
    IF Len(prices) = 0 THEN <<>>
    ELSE LET n == as_number(prices[1].value)
         IN  (IF n = None THEN <<>>
              ELSE <<prices[1].source_name \o ": " \o FormatFixed(n[1], 6)>>)
                 \o source_details(Tail(prices))

aggregation_label(method) ==
    CASE method = "Average"     -> "avg"
      [] method = "Median"      -> "median"
      [] method = "WeightedAvg" -> "weighted"

\* a variant of the quorum check with <=
quorum_failed_le(data_req, source_prices) ==
    Len(source_prices) <= data_req.min_sources_num

\* quorum check: source_prices.len() < data_req.min_sources_num
quorum_failed(data_req, source_prices) ==
    Len(source_prices) < data_req.min_sources_num

\* a variant of the deviation check with >=
deviation_failed_ge(deviation, max_deviation) == RLe(max_deviation, deviation)

\* deviation check: deviation > max_deviation
deviation_failed(deviation, max_deviation) == RGt(deviation, max_deviation)

\* the value process_fetched_data returns, or the panic of source_prices[0]
\* on an empty vector: [panicked, response]
Returned(resp) == [panicked |-> FALSE, response |-> resp]
Panicked == [panicked |-> TRUE, response |-> DataResponse("", None, None)]

\* a variant that runs the deviation check before the quorum check
process_fetched_data_deviation_first(data_req, source_prices, errors, max_deviation) ==
    LET numeric          == has_numeric(source_prices)
        latest_timestamp == MaxTimestamp(0, source_prices)
        source_names     == [i \in 1..Len(source_prices) |-> source_prices[i].source_name]
        message          == IF errors # <<>> THEN Some(Join(errors, ", ")) ELSE None
        deviation        == calculate_price_deviation(source_prices)
        aggregated       == aggregate_prices(source_prices, data_req.aggregation_method)
        final_value      == IF numeric THEN Number(aggregated.val)
                            ELSE source_prices[1].value
        agg_info         == Join(source_details(source_prices), ", ") \o ", "
                               \o aggregation_label(data_req.aggregation_method) \o ": "
                               \o FormatFixed(final_value.num, 6)
        detailed_message ==
            IF numeric /\ Len(source_prices) > 1
            THEN IF final_value.tag = "Number"
                 THEN IF errors # <<>>
                      THEN Some(agg_info \o ". Errors: " \o Join(errors, ", "))
                      ELSE Some(agg_info)
                 ELSE message
            ELSE message
    IN  IF numeric /\ deviation_failed(deviation, max_deviation)
        THEN Returned(DataResponse(data_req.id, None,
                 Some("Price deviation too high: " \o FormatFixed(deviation, 2)
                      \o "% (max: " \o FormatFixed(max_deviation, 2) \o "%)")))
        ELSE IF quorum_failed(data_req, source_prices)
        THEN Returned(DataResponse(data_req.id, None,
                 Some("Not enough sources responded (" \o ToString(Len(source_prices))
                      \o "/" \o ToString(data_req.min_sources_num)
                      \o "). Errors: " \o Join(errors, ", "))))
        ELSE IF numeric /\ ~aggregated.ok
        THEN Returned(DataResponse(data_req.id, None,
                 Some("Aggregation failed: " \o aggregated.err)))
        ELSE IF ~numeric /\ Len(source_prices) = 0
        THEN Panicked
        ELSE Returned(DataResponse(data_req.id,
                 Some(PriceData(final_value, latest_timestamp, source_names)),
                 detailed_message))

\* a variant whose detail line leaves the failures out
process_fetched_data_quiet(data_req, source_prices, errors, max_deviation) ==
    LET numeric          == has_numeric(source_prices)
        latest_timestamp == MaxTimestamp(0, source_prices)
        source_names     == [i \in 1..Len(source_prices) |-> source_prices[i].source_name]
        message          == IF errors # <<>> THEN Some(Join(errors, ", ")) ELSE None
        deviation        == calculate_price_deviation(source_prices)
        aggregated       == aggregate_prices(source_prices, data_req.aggregation_method)
        final_value      == IF numeric THEN Number(aggregated.val)
                            ELSE source_prices[1].value
        agg_info         == Join(source_details(source_prices), ", ") \o ", "
                               \o aggregation_label(data_req.aggregation_method) \o ": "
                               \o FormatFixed(final_value.num, 6)
        detailed_message ==
            IF numeric /\ Len(source_prices) > 1
            THEN IF final_value.tag = "Number"
                 THEN Some(agg_info)
                 ELSE message
            ELSE message
    IN  IF quorum_failed(data_req, source_prices)
        THEN Returned(DataResponse(data_req.id, None,
                 Some("Not enough sources responded (" \o ToString(Len(source_prices))
                      \o "/" \o ToString(data_req.min_sources_num)
                      \o "). Errors: " \o Join(errors, ", "))))
        ELSE IF numeric /\ deviation_failed(deviation, max_deviation)
        THEN Returned(DataResponse(data_req.id, None,
                 Some("Price deviation too high: " \o FormatFixed(deviation, 2)
                      \o "% (max: " \o FormatFixed(max_deviation, 2) \o "%)")))
        ELSE IF numeric /\ ~aggregated.ok
        THEN Returned(DataResponse(data_req.id, None,
                 Some("Aggregation failed: " \o aggregated.err)))
        ELSE IF ~numeric /\ Len(source_prices) = 0
        THEN Panicked
        ELSE Returned(DataResponse(data_req.id,
                 Some(PriceData(final_value, latest_timestamp, source_names)),
                 detailed_message))

process_fetched_data(data_req, source_prices, errors, max_deviation) ==
    LET numeric          == has_numeric(source_prices)
        latest_timestamp == MaxTimestamp(0, source_prices)
        source_names     == [i \in 1..Len(source_prices) |-> source_prices[i].source_name]
        message          == IF errors # <<>> THEN Some(Join(errors, ", ")) ELSE None
        deviation        == calculate_price_deviation(source_prices)
        aggregated       == aggregate_prices(source_prices, data_req.aggregation_method)
        final_value      == IF numeric THEN Number(aggregated.val)
                            ELSE source_prices[1].value
        agg_info         == Join(source_details(source_prices), ", ") \o ", "
                               \o aggregation_label(data_req.aggregation_method) \o ": "
                               \o FormatFixed(final_value.num, 6)
        detailed_message ==
            IF numeric /\ Len(source_prices) > 1
            THEN IF final_value.tag = "Number"
                 THEN IF errors # <<>>
                      THEN Some(agg_info \o ". Errors: " \o Join(errors, ", "))
                      ELSE Some(agg_info)
                 ELSE message
            ELSE message
    IN  IF quorum_failed(data_req, source_prices)
        THEN Returned(DataResponse(data_req.id, None,
                 Some("Not enough sources responded (" \o ToString(Len(source_prices))
                      \o "/" \o ToString(data_req.min_sources_num)
                      \o "). Errors: " \o Join(errors, ", "))))
        ELSE IF numeric /\ deviation_failed(deviation, max_deviation)
        THEN Returned(DataResponse(data_req.id, None,
                 Some("Price deviation too high: " \o FormatFixed(deviation, 2)
                      \o "% (max: " \o FormatFixed(max_deviation, 2) \o "%)")))
        ELSE IF numeric /\ ~aggregated.ok
        THEN Returned(DataResponse(data_req.id, None,
                 Some("Aggregation failed: " \o aggregated.err)))
        ELSE IF ~numeric /\ Len(source_prices) = 0
        THEN Panicked
        ELSE Returned(DataResponse(data_req.id,
                 Some(PriceData(final_value, latest_timestamp, source_names)),
                 detailed_message))

(***************************************************************************)
(* sources.rs: the Source Adapter, replaced by a fixed-output double.      *)
(* The dispatch on the source name and the two errors that need no network *)
(* (an unknown source, "custom" without a config) are the code's; a known  *)
(* adapter answers with a fixed reading or a fixed error after a fixed     *)
(* number of seconds.                                                      *)
(***************************************************************************)
FetchOk(price) == [ok |-> TRUE,  price |-> price, err |-> ""]
FetchErr(e)    == [ok |-> FALSE, price |-> SourcePrice("", Number(F(0)), 0), err |-> e]

fetch_custom(config) ==
    CASE config.value_type = "Boolean" -> FetchOk(SourcePrice("custom", Boolean(TRUE), 50))
      [] config.value_type = "String"  ->
             IF config.json_path = "author"
             THEN FetchOk(SourcePrice("custom", Text("bob.near"), 65))
             ELSE FetchOk(SourcePrice("custom", Text("alice.near"), 60))
      [] config.value_type = "Number"  -> FetchOk(SourcePrice("custom", Number(F(0)), 70))

fetch_price(source_name, token_id, api_key) ==
    CASE source_name = "binance"   -> FetchOk(SourcePrice("binance", Number(F(100)), 10))
      [] source_name = "huobi"     -> FetchOk(SourcePrice("huobi", Number(F(105)), 20))
      [] source_name = "gate"      -> FetchOk(SourcePrice("gate", Number(F(110)), 30))
      [] source_name = "pyth"      -> FetchOk(SourcePrice("pyth", Number(F(100)), 40))
      [] source_name = "kucoin"    -> FetchErr("HTTP 500")
      [] source_name = "cryptocom" -> FetchErr("HTTP 503")
      \* fetch_exchangerate_api splits token_id at '/'; no id of the model has one
      [] source_name = "exchangerate-api" ->
             FetchErr("Invalid forex pair format: " \o token_id
                          \o ". Expected BASE/TARGET (e.g. EUR/USD)")
      [] OTHER                     -> FetchErr("Unknown source: " \o source_name)

fetch_price_with_config(source_name, token_id, api_key, custom_config) ==
    IF source_name = "custom"
    THEN IF custom_config = None
         THEN FetchErr("Custom source requires 'custom' config")
         ELSE fetch_custom(custom_config[1])
    ELSE fetch_price(source_name, token_id, api_key)

\* start.elapsed() around the adapter call, in whole seconds: huobi answers
\* exactly at the configured timeout, pyth and cryptocom one second after it
elapsed_secs(source_name) ==
    CASE source_name = "huobi"     -> RequestTimeoutSecs
      [] source_name = "pyth"      -> RequestTimeoutSecs + 1
      [] source_name = "cryptocom" -> RequestTimeoutSecs + 1
      [] OTHER                     -> 0

(***************************************************************************)
(* parallel.rs: the body of one lookup thread, up to its fetch_result      *)
(***************************************************************************)
timed_out(elapsed, request_timeout_secs) == elapsed > request_timeout_secs

\* a variant that calls the adapter with the id of the request
lookup_result_request_id(source_config, data_req_id, request_timeout_secs) ==
    LET id          == data_req_id
        source_name == source_config.name
        result      == fetch_price_with_config(source_config.name, id, None,
                                               source_config.custom)
        elapsed     == elapsed_secs(source_config.name)
    IN  IF timed_out(elapsed, request_timeout_secs)
        THEN FetchErr(source_name \o ": Request timeout after "
                          \o ToString(request_timeout_secs) \o " seconds")
        ELSE IF result.ok THEN FetchOk(result.price)
        ELSE FetchErr(source_name \o ": " \o result.err)

\* a variant that looks at the elapsed time only when the adapter failed
lookup_result_ok_first(source_config, data_req_id, request_timeout_secs) ==
    LET id          == IF source_config.id # None THEN source_config.id[1] ELSE data_req_id
        source_name == source_config.name
        result      == fetch_price_with_config(source_config.name, id, None,
                                               source_config.custom)
        elapsed     == elapsed_secs(source_config.name)
    IN  IF result.ok THEN FetchOk(result.price)
        ELSE IF timed_out(elapsed, request_timeout_secs)
        THEN FetchErr(source_name \o ": Request timeout after "
                          \o ToString(request_timeout_secs) \o " seconds")
        ELSE FetchErr(source_name \o ": " \o result.err)

lookup_result(source_config, data_req_id, request_timeout_secs) ==
    LET id          == IF source_config.id # None THEN source_config.id[1] ELSE data_req_id
        source_name == source_config.name
        result      == fetch_price_with_config(source_config.name, id, None,
                                               source_config.custom)
        elapsed     == elapsed_secs(source_config.name)
    IN  IF timed_out(elapsed, request_timeout_secs)
        THEN FetchErr(source_name \o ": Request timeout after "
                          \o ToString(request_timeout_secs) \o " seconds")
        ELSE IF result.ok THEN FetchOk(result.price)
        ELSE FetchErr(source_name \o ": " \o result.err)

\* the "Collect results" loop: the Ok and the Err entries of the collector
RECURSIVE collect_prices(_)
collect_prices(results) ==
    IF Len(results) = 0 THEN <<>>
    ELSE (IF results[1].ok THEN <<results[1].price>> ELSE <<>>)
             \o collect_prices(Tail(results))

RECURSIVE collect_errors(_)
collect_errors(results) ==
    IF Len(results) = 0 THEN <<>>
    ELSE (IF results[1].ok THEN <<>> ELSE <<results[1].err>>)
             \o collect_errors(Tail(results))

\* a variant whose chunks hold one source more than the cap
chunk_end_plus_one(lo, len, max_concurrent_requests) ==
    IF lo + max_concurrent_requests < len
    THEN lo + max_concurrent_requests ELSE len

\* a variant that puts every remaining source into one chunk
chunk_end_unbounded(lo, len, max_concurrent_requests) == len

\* sources.chunks(max_concurrent_requests): the last index of the chunk
\* that starts at lo
chunk_end(lo, len, max_concurrent_requests) ==
    IF lo + max_concurrent_requests - 1 < len
    THEN lo + max_concurrent_requests - 1 ELSE len

\* results.sort_by_key(|&(idx, _)| idx), then drain(..).map(|(_, r)| r)
RECURSIVE InsertByIndex(_, _)
InsertByIndex(e, s) ==
    IF Len(s) = 0 THEN <<e>>
    ELSE IF e[1] < s[1][1] THEN <<e>> \o s
    ELSE <<s[1]>> \o InsertByIndex(e, Tail(s))

RECURSIVE sort_by_index(_)
sort_by_index(s) ==
    IF Len(s) = 0 THEN <<>>
    ELSE InsertByIndex(s[Len(s)], sort_by_index(SubSeq(s, 1, Len(s) - 1)))

drain_responses(s) == [i \in 1..Len(s) |-> s[i][2]]

(***************************************************************************)
(* State                                                                   *)
(***************************************************************************)
VARIABLES
    requests,        \* process_data_requests_parallel: the batch, Vec<DataRequest>
    max_deviation,   \* max_price_deviation_percent of the batch
    config,          \* ExecutionConfig
    main_pc,         \* the caller: "spawn", "join", "sort", "done"
    main_i,          \* the caller's position in its spawn / join loop (1-based)
    w_pc,            \* per request worker: "unspawned", "spawn_chunk", "join_chunk",
                     \*   "collect", "process", "respond", "locked", "done", "panicked"
    chunk_lo,        \* per worker: first source index of the current chunk
    next_src,        \* per worker: next source to spawn / next handle to join
    lk,              \* per worker, per source: the lookup thread
                     \*   "idle", "running", "fetched", "locked", "done"
    fetch_result,    \* per worker, per source: the thread's fetch_result
    adapter_calls,   \* per worker, per source: calls of fetch_price_with_config so far
    results,         \* per worker: the shared results collector of its lookups
    results_lock,    \* per worker: holder of that collector's mutex (0: free)
    source_prices,   \* per worker: first component returned by fetch_prices_parallel
    errors,          \* per worker: second component
    response,        \* per worker: Option<DataResponse> of process_fetched_data
    batch_results,   \* the batch collector: Vec<(index, DataResponse)>
    batch_lock,      \* holder of the batch collector's mutex (0: free)
    sorted_results,  \* the value process_data_requests_parallel returns
    run,             \* number of the pipeline run on this batch (1, or 2 after a re-run)
    prev_results,    \* Option: what the first run returned, kept for the re-run
    fn_prices,       \* aggregation.rs called directly: the prices argument
    fn_method,       \*   the method argument
    fn_deviation,    \*   Option: the value of calculate_price_deviation(fn_prices)
    fn_aggregate,    \*   Option: the value of aggregate_prices(fn_prices, fn_method)
    seq_pc,          \* main.rs main(): "idle", "validate", "loop", "output", "exit",
                     \*   "panicked"
    seq_i,           \*   position of its loop over request.requests (1-based)
    seq_calls,       \*   calls of fetch_price_with_config made so far
    data_responses,  \*   its data_responses vector
    stdout           \*   Option: what it printed

vars == <<requests, max_deviation, config, main_pc, main_i, w_pc, chunk_lo, next_src,
          lk, fetch_result, adapter_calls, results, results_lock, source_prices, errors,
          response,
          batch_results, batch_lock, sorted_results, run, prev_results,
          fn_prices, fn_method, fn_deviation, fn_aggregate,
          seq_pc, seq_i, seq_calls, data_responses, stdout>>

seq_vars == <<seq_pc, seq_i, seq_calls, data_responses, stdout>>
rerun_vars == <<run, prev_results>>
fn_vars == <<fn_prices, fn_method, fn_deviation, fn_aggregate>>
input_vars == <<requests, max_deviation, config, rerun_vars, fn_vars, seq_vars>>
main_vars == <<main_pc, main_i, sorted_results>>
fetch_vars == <<chunk_lo, next_src, lk, fetch_result, adapter_calls, results, results_lock>>
out_vars == <<source_prices, errors, response>>
batch_vars == <<batch_results, batch_lock>>

Workers == 1..Len(requests)
SourcesOf(r) == 1..Len(requests[r].sources)

(***************************************************************************)
(* Inputs                                                                  *)
(***************************************************************************)
SeqsUpTo(S, lo, hi) == UNION {[1..n -> S] : n \in lo..hi}

Binance   == PriceSource("binance", None, None)
Huobi     == PriceSource("huobi", None, None)
Gate      == PriceSource("gate", None, None)
Pyth      == PriceSource("pyth", None, None)
Kucoin    == PriceSource("kucoin", None, None)
Cryptocom == PriceSource("cryptocom", None, None)
CustomBoolean == PriceSource("custom", None, Some([value_type |-> "Boolean"]))
CustomOwner ==
    PriceSource("custom", None, Some([value_type |-> "String", json_path |-> "owner"]))
CustomAuthor ==
    PriceSource("custom", None, Some([value_type |-> "String", json_path |-> "author"]))

Forex          == PriceSource("exchangerate-api", None, None)
ForexEur       == PriceSource("exchangerate-api", Some("EURUSD"), None)
ForexNear      == PriceSource("exchangerate-api", Some("near"), None)
BinanceNear    == PriceSource("binance", Some("NEARUSDT"), None)

RequestIds == <<"near", "btc", "eth", "usdt">>

\* the batches of the model: up to MaxRequests requests of up to MaxSources
\* sources each
BatchSources == {Binance, Gate, Kucoin, Pyth}
BatchRequests(id) ==
    {DataRequest(id, srcs, "Average", min) :
        srcs \in SeqsUpTo(BatchSources, 1, MaxSources), min \in {0, 2}}
Batches ==
    UNION {{b \in [1..n -> UNION {BatchRequests(RequestIds[i]) : i \in 1..n}] :
               \A i \in 1..n : b[i].id = RequestIds[i]} : n \in 1..MaxRequests}

\* the batches of up to MaxRequests requests that make up to MaxBatchLookups
\* lookups in all
SmallBatchSources == {Binance, Pyth}
SmallRequests(id, len) ==
    {DataRequest(id, srcs, "Average", min) :
        srcs \in [1..len -> SmallBatchSources], min \in {0, 2}}

\* the batches of n requests that make at most k lookups, every request
\* at least one
RECURSIVE SmallBatchesOf(_, _)
SmallBatchesOf(n, k) ==
    IF n = 0 THEN {<<>>}
    ELSE UNION {{Append(b, q) : b \in SmallBatchesOf(n - 1, k - len),
                                q \in SmallRequests(RequestIds[n], len)} :
                   len \in 1..(k - (n - 1))}

SmallBatches == UNION {SmallBatchesOf(n, MaxBatchLookups) : n \in 1..MaxRequests}

\* the single requests of the model: up to MaxRequestSources sources, every
\* aggregation method, a quorum of 0, 1 or 2
RequestSources == {Binance, Huobi, Pyth, Kucoin, CustomBoolean}
RequestBatchesOf(sources) ==
    {<<DataRequest(RequestIds[1], srcs, method, min)>> :
        srcs \in SeqsUpTo(sources, 0, MaxRequestSources),
        method \in AggregationMethod, min \in 0..2}
RequestBatches == RequestBatchesOf(RequestSources)

\* the single requests whose lookups answer in time or late, with a reading
\* or with an error: up to MaxFetchSources sources
FetchSources == {Binance, Pyth, Kucoin, Cryptocom}
FetchBatches ==
    {<<DataRequest(RequestIds[1], srcs, "Average", 1)>> :
        srcs \in SeqsUpTo(FetchSources, 0, MaxFetchSources)}

\* the single requests that are run twice
RerunSources == {Binance, Huobi, Kucoin, Pyth}
RerunBatches == RequestBatchesOf(RerunSources)

\* the single requests that are run under several thresholds: numeric,
\* failing and text sources
ThresholdSources == {Binance, Kucoin, CustomOwner, CustomAuthor}
ThresholdBatches ==
    {<<DataRequest(RequestIds[1], srcs, "Average", min)>> :
        srcs \in SeqsUpTo(ThresholdSources, 0, MaxSources), min \in {0, 1}}

\* the single requests whose quorum goes up to the number of sources and
\* whose readings may disagree
OrderSources == {Binance, CustomBoolean, Kucoin}
OrderBatches ==
    {<<DataRequest(RequestIds[1], srcs, "Average", min)>> :
        srcs \in SeqsUpTo(OrderSources, 0, MaxRequestSources),
        min \in 0..MaxRequestSources}

\* the single requests whose sources name an id of their own or none
IdSources == {Forex, ForexEur, ForexNear, BinanceNear}
IdBatches ==
    {<<DataRequest(id, srcs, "Average", 1)>> :
        id \in {RequestIds[1], RequestIds[2]},
        srcs \in SeqsUpTo(IdSources, 1, MaxSources)}

\* the single requests whose readings are numeric, text or missing
AssembleSources == {Binance, Huobi, Kucoin, CustomOwner}
AssembleBatches == RequestBatchesOf(AssembleSources)

Deviations == {F(5)}

\* max_price_deviation_percent is an unvalidated f64 of the request JSON
Thresholds == {F(-1), F(0), F(5)}

Configs ==
    {[max_concurrent_requests |-> c, request_timeout_secs |-> t] :
        c \in 1..MaxConcurrent, t \in {RequestTimeoutSecs}}

\* the state of process_data_requests_parallel on entry
Start ==
    /\ main_pc = "spawn"
    /\ main_i = 1
    /\ w_pc = [r \in Workers |-> "unspawned"]
    /\ chunk_lo = [r \in Workers |-> 1]
    /\ next_src = [r \in Workers |-> 1]
    /\ lk = [r \in Workers |-> [s \in SourcesOf(r) |-> "idle"]]
    /\ fetch_result = [r \in Workers |-> [s \in SourcesOf(r) |-> None]]
    /\ adapter_calls = [r \in Workers |-> [s \in SourcesOf(r) |-> 0]]
    /\ results = [r \in Workers |-> <<>>]
    /\ results_lock = [r \in Workers |-> 0]
    /\ source_prices = [r \in Workers |-> <<>>]
    /\ errors = [r \in Workers |-> <<>>]
    /\ response = [r \in Workers |-> None]
    /\ batch_results = <<>>
    /\ batch_lock = 0
    /\ sorted_results = <<>>

NoFunctionCall ==
    /\ fn_prices = <<>>
    /\ fn_method = "Average"
    /\ fn_deviation = None
    /\ fn_aggregate = None

NoSequentialRun ==
    /\ seq_pc = "idle"
    /\ seq_i = 1
    /\ seq_calls = 0
    /\ data_responses = <<>>
    /\ stdout = None

InitWith(batches, deviations) ==
    /\ requests \in batches
    /\ max_deviation \in deviations
    /\ config \in Configs
    /\ Start
    /\ run = 1
    /\ prev_results = None
    /\ NoFunctionCall
    /\ NoSequentialRun

\* a batch of up to MaxRequests requests
Init == InitWith(Batches, Deviations)

\* a batch of one request
InitRequest == InitWith(RequestBatches, Deviations)

\* a batch of one request of up to MaxFetchSources sources
InitFetch == InitWith(FetchBatches, Deviations)

\* a batch of one request under a negative, a zero or a positive threshold
InitThreshold == InitWith(ThresholdBatches, Thresholds)

\* a batch of one request with numeric and text readings
InitAssemble == InitWith(AssembleBatches, Deviations)

\* a batch of up to MaxRequests requests and up to MaxBatchLookups lookups
InitSmallBatch == InitWith(SmallBatches, Deviations)

\* a batch of one request with a quorum of up to all its sources
InitOrder == InitWith(OrderBatches, Deviations)

\* a batch of one request whose sources name an id of their own or none
InitIds == InitWith(IdBatches, Deviations)

\* the batches that are run under fair scheduling: those of SmallBatches in
\* which at most one source of a request answers; the values read play no
\* part in the scheduling of the threads
LiveBatches ==
    {b \in SmallBatches :
        \A i \in 1..Len(b) :
            Cardinality({s \in 1..Len(b[i].sources) : b[i].sources[s] = Binance}) <= 1}

InitLive == InitWith(LiveBatches, Deviations)

\* a batch of one request, to be run twice
InitRerun == InitWith(RerunBatches, Deviations)

(***************************************************************************)
(* process_data_requests_parallel: the caller                              *)
(***************************************************************************)
\* for (index, data_req) in requests.into_iter().enumerate() { thread::spawn }
SpawnWorker ==
    /\ main_pc = "spawn"
    /\ w_pc' = [w_pc EXCEPT ![main_i] =
                   IF Len(requests[main_i].sources) = 0 THEN "collect" ELSE "spawn_chunk"]
    /\ IF main_i = Len(requests)
       THEN main_pc' = "join" /\ main_i' = 1
       ELSE main_pc' = main_pc /\ main_i' = main_i + 1
    /\ UNCHANGED <<input_vars, sorted_results, fetch_vars, out_vars, batch_vars>>

\* for handle in threads { let _ = handle.join(); }
JoinWorker ==
    /\ main_pc = "join"
    /\ w_pc[main_i] \in {"done", "panicked"}
    /\ IF main_i = Len(requests)
       THEN main_pc' = "sort" /\ main_i' = main_i
       ELSE main_pc' = main_pc /\ main_i' = main_i + 1
    /\ UNCHANGED <<input_vars, sorted_results, w_pc, fetch_vars, out_vars, batch_vars>>

\* results.lock(), sort_by_key, drain, return
SortResults ==
    /\ main_pc = "sort"
    /\ batch_lock = 0
    /\ sorted_results' = drain_responses(sort_by_index(batch_results))
    /\ batch_results' = <<>>
    /\ main_pc' = "done"
    /\ UNCHANGED <<input_vars, main_i, w_pc, fetch_vars, out_vars, batch_lock>>

(***************************************************************************)
(* fetch_prices_parallel, run by the worker of request r                   *)
(***************************************************************************)
ChunkEnd(r) ==
    chunk_end(chunk_lo[r], Len(requests[r].sources), config.max_concurrent_requests)

\* thread::spawn for the next source of the current chunk
SpawnLookup(r) ==
    /\ w_pc[r] = "spawn_chunk"
    /\ lk' = [lk EXCEPT ![r][next_src[r]] = "running"]
    /\ IF next_src[r] = ChunkEnd(r)
       THEN w_pc' = [w_pc EXCEPT ![r] = "join_chunk"]
            /\ next_src' = [next_src EXCEPT ![r] = chunk_lo[r]]
       ELSE w_pc' = w_pc
            /\ next_src' = [next_src EXCEPT ![r] = next_src[r] + 1]
    /\ UNCHANGED <<input_vars, main_vars, chunk_lo, fetch_result, adapter_calls, results,
                   results_lock, out_vars, batch_vars>>

\* a variant that calls the adapter a second time after a failed lookup
AdapterReturn_retry(r, s) ==
    /\ lk[r][s] = "running"
    /\ adapter_calls' = [adapter_calls EXCEPT ![r][s] = adapter_calls[r][s] + 1]
    /\ LET out == lookup_result(requests[r].sources[s], requests[r].id,
                                config.request_timeout_secs)
       IN  IF ~out.ok /\ adapter_calls[r][s] = 0
           THEN UNCHANGED <<lk, fetch_result>>
           ELSE /\ fetch_result' = [fetch_result EXCEPT ![r][s] = Some(out)]
                /\ lk' = [lk EXCEPT ![r][s] = "fetched"]
    /\ UNCHANGED <<input_vars, main_vars, w_pc, chunk_lo, next_src, results, results_lock,
                   out_vars, batch_vars>>

\* the lookup thread: the adapter call returns and fetch_result is computed
AdapterReturn(r, s) ==
    /\ lk[r][s] = "running"
    /\ fetch_result' = [fetch_result EXCEPT ![r][s] =
           Some(lookup_result(requests[r].sources[s], requests[r].id,
                              config.request_timeout_secs))]
    /\ adapter_calls' = [adapter_calls EXCEPT ![r][s] = adapter_calls[r][s] + 1]
    /\ lk' = [lk EXCEPT ![r][s] = "fetched"]
    /\ UNCHANGED <<input_vars, main_vars, w_pc, chunk_lo, next_src, results, results_lock,
                   out_vars, batch_vars>>

\* a variant that enters the critical section without waiting for the lock
LockResults_nolock(r, s) ==
    /\ lk[r][s] = "fetched"
    /\ results_lock' = [results_lock EXCEPT ![r] = s]
    /\ lk' = [lk EXCEPT ![r][s] = "locked"]
    /\ UNCHANGED <<input_vars, main_vars, w_pc, chunk_lo, next_src, fetch_result,
                   adapter_calls, results, out_vars, batch_vars>>

\* results_clone.lock()
LockResults(r, s) ==
    /\ lk[r][s] = "fetched"
    /\ results_lock[r] = 0
    /\ results_lock' = [results_lock EXCEPT ![r] = s]
    /\ lk' = [lk EXCEPT ![r][s] = "locked"]
    /\ UNCHANGED <<input_vars, main_vars, w_pc, chunk_lo, next_src, fetch_result,
                   adapter_calls, results, out_vars, batch_vars>>

\* a variant that stores the result in place of the collector's content
PushResult_overwrite(r, s) ==
    /\ lk[r][s] = "locked"
    /\ results' = [results EXCEPT ![r] = <<fetch_result[r][s][1]>>]
    /\ results_lock' = [results_lock EXCEPT ![r] = 0]
    /\ fetch_result' = [fetch_result EXCEPT ![r][s] = None]
    /\ lk' = [lk EXCEPT ![r][s] = "done"]
    /\ UNCHANGED <<input_vars, main_vars, w_pc, chunk_lo, next_src, adapter_calls, out_vars,
                   batch_vars>>

\* a variant that puts the result in front of the collector's content
PushResult_front(r, s) ==
    /\ lk[r][s] = "locked"
    /\ results' = [results EXCEPT ![r] = <<fetch_result[r][s][1]>> \o results[r]]
    /\ results_lock' = [results_lock EXCEPT ![r] = 0]
    /\ fetch_result' = [fetch_result EXCEPT ![r][s] = None]
    /\ lk' = [lk EXCEPT ![r][s] = "done"]
    /\ UNCHANGED <<input_vars, main_vars, w_pc, chunk_lo, next_src, adapter_calls, out_vars,
                   batch_vars>>

\* results.push(fetch_result); the guard is dropped and the thread ends
PushResult(r, s) ==
    /\ lk[r][s] = "locked"
    /\ results' = [results EXCEPT ![r] = Append(results[r], fetch_result[r][s][1])]
    /\ results_lock' = [results_lock EXCEPT ![r] = 0]
    /\ fetch_result' = [fetch_result EXCEPT ![r][s] = None]
    /\ lk' = [lk EXCEPT ![r][s] = "done"]
    /\ UNCHANGED <<input_vars, main_vars, w_pc, chunk_lo, next_src, adapter_calls, out_vars,
                   batch_vars>>

\* a variant that does not wait for the thread it joins
JoinLookup_nowait(r) ==
    /\ w_pc[r] = "join_chunk"
    /\ IF next_src[r] < ChunkEnd(r)
       THEN /\ next_src' = [next_src EXCEPT ![r] = next_src[r] + 1]
            /\ UNCHANGED <<w_pc, chunk_lo>>
       ELSE IF ChunkEnd(r) < Len(requests[r].sources)
       THEN /\ chunk_lo' = [chunk_lo EXCEPT ![r] = ChunkEnd(r) + 1]
            /\ next_src' = [next_src EXCEPT ![r] = ChunkEnd(r) + 1]
            /\ w_pc' = [w_pc EXCEPT ![r] = "spawn_chunk"]
       ELSE /\ w_pc' = [w_pc EXCEPT ![r] = "collect"]
            /\ UNCHANGED <<chunk_lo, next_src>>
    /\ UNCHANGED <<input_vars, main_vars, lk, fetch_result, adapter_calls, results,
                   results_lock, out_vars, batch_vars>>

\* a variant that goes on as soon as one thread of the chunk has ended
JoinLookup_any(r) ==
    /\ w_pc[r] = "join_chunk"
    /\ \E s \in chunk_lo[r]..ChunkEnd(r) : lk[r][s] = "done"
    /\ IF next_src[r] < ChunkEnd(r)
       THEN /\ next_src' = [next_src EXCEPT ![r] = next_src[r] + 1]
            /\ UNCHANGED <<w_pc, chunk_lo>>
       ELSE IF ChunkEnd(r) < Len(requests[r].sources)
       THEN /\ chunk_lo' = [chunk_lo EXCEPT ![r] = ChunkEnd(r) + 1]
            /\ next_src' = [next_src EXCEPT ![r] = ChunkEnd(r) + 1]
            /\ w_pc' = [w_pc EXCEPT ![r] = "spawn_chunk"]
       ELSE /\ w_pc' = [w_pc EXCEPT ![r] = "collect"]
            /\ UNCHANGED <<chunk_lo, next_src>>
    /\ UNCHANGED <<input_vars, main_vars, lk, fetch_result, adapter_calls, results,
                   results_lock, out_vars, batch_vars>>

\* for handle in chunk_threads { handle.join() }, then the next chunk
JoinLookup(r) ==
    /\ w_pc[r] = "join_chunk"
    /\ lk[r][next_src[r]] = "done"
    /\ IF next_src[r] < ChunkEnd(r)
       THEN /\ next_src' = [next_src EXCEPT ![r] = next_src[r] + 1]
            /\ UNCHANGED <<w_pc, chunk_lo>>
       ELSE IF ChunkEnd(r) < Len(requests[r].sources)
       THEN /\ chunk_lo' = [chunk_lo EXCEPT ![r] = ChunkEnd(r) + 1]
            /\ next_src' = [next_src EXCEPT ![r] = ChunkEnd(r) + 1]
            /\ w_pc' = [w_pc EXCEPT ![r] = "spawn_chunk"]
       ELSE /\ w_pc' = [w_pc EXCEPT ![r] = "collect"]
            /\ UNCHANGED <<chunk_lo, next_src>>
    /\ UNCHANGED <<input_vars, main_vars, lk, fetch_result, adapter_calls, results,
                   results_lock, out_vars, batch_vars>>

\* "Collect results": results.lock(), split into (source_prices, errors), return
FetchReturn(r) ==
    /\ w_pc[r] = "collect"
    /\ results_lock[r] = 0
    /\ source_prices' = [source_prices EXCEPT ![r] = collect_prices(results[r])]
    /\ errors' = [errors EXCEPT ![r] = collect_errors(results[r])]
    /\ w_pc' = [w_pc EXCEPT ![r] = "process"]
    /\ UNCHANGED <<input_vars, main_vars, fetch_vars, response, batch_vars>>

(***************************************************************************)
(* process_data_requests_parallel: the worker of request r                 *)
(***************************************************************************)
\* a variant that processes the readings of the first request of the batch
Process_first(r) ==
    /\ w_pc[r] = "process"
    /\ LET out == process_fetched_data(requests[r], source_prices[1], errors[1],
                                       max_deviation)
       IN  IF out.panicked
           THEN /\ w_pc' = [w_pc EXCEPT ![r] = "panicked"]
                /\ UNCHANGED response
           ELSE /\ w_pc' = [w_pc EXCEPT ![r] = "respond"]
                /\ response' = [response EXCEPT ![r] = Some(out.response)]
    /\ UNCHANGED <<input_vars, main_vars, fetch_vars, source_prices, errors, batch_vars>>

\* let response = process_fetched_data(data_req, source_prices, errors, max_deviation)
Process(r) ==
    /\ w_pc[r] = "process"
    /\ LET out == process_fetched_data(requests[r], source_prices[r], errors[r],
                                       max_deviation)
       IN  IF out.panicked
           THEN /\ w_pc' = [w_pc EXCEPT ![r] = "panicked"]
                /\ UNCHANGED response
           ELSE /\ w_pc' = [w_pc EXCEPT ![r] = "respond"]
                /\ response' = [response EXCEPT ![r] = Some(out.response)]
    /\ UNCHANGED <<input_vars, main_vars, fetch_vars, source_prices, errors, batch_vars>>

\* results_clone.lock()
LockBatch(r) ==
    /\ w_pc[r] = "respond"
    /\ batch_lock = 0
    /\ batch_lock' = r
    /\ w_pc' = [w_pc EXCEPT ![r] = "locked"]
    /\ UNCHANGED <<input_vars, main_vars, fetch_vars, out_vars, batch_results>>

\* results.push((index, response)); the guard is dropped and the thread ends
PushResponse(r) ==
    /\ w_pc[r] = "locked"
    /\ batch_results' = Append(batch_results, <<r - 1, response[r][1]>>)
    /\ batch_lock' = 0
    /\ w_pc' = [w_pc EXCEPT ![r] = "done"]
    /\ UNCHANGED <<input_vars, main_vars, fetch_vars, out_vars>>

Next ==
    \/ SpawnWorker
    \/ JoinWorker
    \/ SortResults
    \/ \E r \in Workers : SpawnLookup(r)
    \/ \E r \in Workers : \E s \in SourcesOf(r) : AdapterReturn(r, s)
    \/ \E r \in Workers : \E s \in SourcesOf(r) : LockResults(r, s)
    \/ \E r \in Workers : \E s \in SourcesOf(r) : PushResult(r, s)
    \/ \E r \in Workers : JoinLookup(r)
    \/ \E r \in Workers : FetchReturn(r)
    \/ \E r \in Workers : Process(r)
    \/ \E r \in Workers : LockBatch(r)
    \/ \E r \in Workers : PushResponse(r)

Spec == Init /\ [][Next]_vars

SpecRequest == InitRequest /\ [][Next]_vars

SpecFetch == InitFetch /\ [][Next]_vars

SpecThreshold == InitThreshold /\ [][Next]_vars

SpecAssemble == InitAssemble /\ [][Next]_vars

SpecSmallBatch == InitSmallBatch /\ [][Next]_vars

SpecOrder == InitOrder /\ [][Next]_vars

SpecIds == InitIds /\ [][Next]_vars

\* the steps of the three kinds of thread: the caller, the worker of
\* request r, the lookup of source s of request r
MainThread == SpawnWorker \/ JoinWorker \/ SortResults

WorkerThread(r) ==
    /\ r \in Workers
    /\ \/ SpawnLookup(r) \/ JoinLookup(r) \/ FetchReturn(r)
       \/ Process(r) \/ LockBatch(r) \/ PushResponse(r)

LookupThread(r, s) ==
    /\ r \in Workers
    /\ s \in SourcesOf(r)
    /\ AdapterReturn(r, s) \/ LockResults(r, s) \/ PushResult(r, s)

\* every thread that can take a step eventually takes it: the operating
\* system schedules every spawned thread, every adapter call returns, and a
\* thread that waits for a free mutex gets it (every thread locks once)
Fairness ==
    /\ WF_vars(MainThread)
    /\ \A r \in 1..MaxRequests : WF_vars(WorkerThread(r))
    /\ \A r \in 1..MaxRequests : \A s \in 1..MaxBatchLookups : WF_vars(LookupThread(r, s))

SpecFair == InitLive /\ [][Next]_vars /\ Fairness

(***************************************************************************)
(* The pipeline run a second time on the same batch with the same adapter  *)
(* double.                                                                 *)
(***************************************************************************)
Rerun ==
    /\ main_pc = "done"
    /\ run = 1
    /\ UNCHANGED <<requests, max_deviation, config, fn_vars, seq_vars>>
    /\ run' = 2
    /\ prev_results' = Some(sorted_results)
    /\ main_pc' = "spawn"
    /\ main_i' = 1
    /\ w_pc' = [r \in Workers |-> "unspawned"]
    /\ chunk_lo' = [r \in Workers |-> 1]
    /\ next_src' = [r \in Workers |-> 1]
    /\ lk' = [r \in Workers |-> [s \in SourcesOf(r) |-> "idle"]]
    /\ fetch_result' = [r \in Workers |-> [s \in SourcesOf(r) |-> None]]
    /\ adapter_calls' = [r \in Workers |-> [s \in SourcesOf(r) |-> 0]]
    /\ results' = [r \in Workers |-> <<>>]
    /\ results_lock' = [r \in Workers |-> 0]
    /\ source_prices' = [r \in Workers |-> <<>>]
    /\ errors' = [r \in Workers |-> <<>>]
    /\ response' = [r \in Workers |-> None]
    /\ batch_results' = <<>>
    /\ batch_lock' = 0
    /\ sorted_results' = <<>>

NextRerun == Next \/ Rerun

SpecRerun == InitRerun /\ [][NextRerun]_vars

(***************************************************************************)
(* aggregation.rs called directly on a vector of prices                    *)
(***************************************************************************)
PriceValues ==
    {Number(F(0)), Number(F(5)), Number(F(100)), Number(F(105)), Number(F(-5)),
     Boolean(TRUE), Boolean(FALSE), Text("alice.near")}

PriceVectors ==
    SeqsUpTo({SourcePrice("custom", v, 10) : v \in PriceValues}, 0, MaxPrices)

InitAggregation ==
    /\ fn_prices \in PriceVectors
    /\ fn_method \in AggregationMethod
    /\ fn_deviation = None
    /\ fn_aggregate = None
    /\ requests = <<>>
    /\ max_deviation = F(5)
    /\ config = [max_concurrent_requests |-> 1, request_timeout_secs |-> 1]
    /\ Start
    /\ run = 1
    /\ prev_results = None
    /\ NoSequentialRun

CallDeviation ==
    /\ fn_deviation = None
    /\ fn_deviation' = Some(calculate_price_deviation(fn_prices))
    /\ UNCHANGED <<requests, max_deviation, config, rerun_vars, seq_vars, main_vars, w_pc,
                   fetch_vars, out_vars, batch_vars, fn_prices, fn_method, fn_aggregate>>

CallAggregate ==
    /\ fn_aggregate = None
    /\ fn_aggregate' = Some(aggregate_prices(fn_prices, fn_method))
    /\ UNCHANGED <<requests, max_deviation, config, rerun_vars, seq_vars, main_vars, w_pc,
                   fetch_vars, out_vars, batch_vars, fn_prices, fn_method, fn_deviation>>

NextAggregation == CallDeviation \/ CallAggregate

SpecAggregation == InitAggregation /\ [][NextAggregation]_vars

\* the aggregation methods called on up to MaxMethodPrices readings
MethodValues ==
    {Number(F(1)), Number(F(2)), Number(F(3)), Number(F(4)),
     Number(F(10)), Number(F(20)), Number(F(30)),
     Boolean(TRUE), Boolean(FALSE), Text("alice.near")}

MethodVectors ==
    SeqsUpTo({SourcePrice("custom", v, 10) : v \in MethodValues}, 0, MaxMethodPrices)

InitMethods ==
    /\ fn_prices \in MethodVectors
    /\ fn_method \in AggregationMethod
    /\ fn_deviation = None
    /\ fn_aggregate = None
    /\ requests = <<>>
    /\ max_deviation = F(5)
    /\ config = [max_concurrent_requests |-> 1, request_timeout_secs |-> 1]
    /\ Start
    /\ run = 1
    /\ prev_results = None
    /\ NoSequentialRun

SpecMethods == InitMethods /\ [][NextAggregation]_vars

(***************************************************************************)
(* main.rs: main() and the sequential process_data_request                 *)
(***************************************************************************)
\* the fetch loop of process_data_request: the sources are queried one after
\* the other; <<source_prices, errors>>
\* a variant that records a failure without the name of its source
RECURSIVE sequential_fetch_unnamed(_, _, _)
sequential_fetch_unnamed(data_req, s, acc) ==
    IF s > Len(data_req.sources) THEN acc
    ELSE LET source_config == data_req.sources[s]
             id            == IF source_config.id # None THEN source_config.id[1]
                              ELSE data_req.id
             result        == fetch_price_with_config(source_config.name, id, None,
                                                      source_config.custom)
         IN  sequential_fetch_unnamed(data_req, s + 1,
                 IF result.ok
                 THEN <<Append(acc[1], result.price), acc[2]>>
                 ELSE <<acc[1], Append(acc[2], result.err)>>)

RECURSIVE sequential_fetch(_, _, _)
sequential_fetch(data_req, s, acc) ==
    IF s > Len(data_req.sources) THEN acc
    ELSE LET source_config == data_req.sources[s]
             id            == IF source_config.id # None THEN source_config.id[1]
                              ELSE data_req.id
             result        == fetch_price_with_config(source_config.name, id, None,
                                                      source_config.custom)
         IN  sequential_fetch(data_req, s + 1,
                 IF result.ok
                 THEN <<Append(acc[1], result.price), acc[2]>>
                 ELSE <<acc[1], Append(acc[2], source_config.name \o ": " \o result.err)>>)

process_data_request(data_req, max_dev) ==
    LET fetched          == sequential_fetch(data_req, 1, <<<<>>, <<>>>>)
        prices           == fetched[1]
        errs             == fetched[2]
        numeric          == has_numeric(prices)
        latest_timestamp == MaxTimestamp(0, prices)
        source_names     == [i \in 1..Len(prices) |-> prices[i].source_name]
        message          == IF errs # <<>> THEN Some(Join(errs, ", ")) ELSE None
        deviation        == calculate_price_deviation(prices)
        aggregated       == aggregate_prices(prices, data_req.aggregation_method)
        final_value      == IF numeric THEN Number(aggregated.val) ELSE prices[1].value
        agg_info         == Join(source_details(prices), ", ") \o ", "
                               \o aggregation_label(data_req.aggregation_method) \o ": "
                               \o FormatFixed(final_value.num, 6)
        detailed_message ==
            IF numeric /\ Len(prices) > 1
            THEN IF final_value.tag = "Number"
                 THEN IF errs # <<>>
                      THEN Some(agg_info \o ". Errors: " \o Join(errs, ", "))
                      ELSE Some(agg_info)
                 ELSE message
            ELSE message
    IN  IF Len(prices) < data_req.min_sources_num
        THEN Returned(DataResponse(data_req.id, None,
                 Some("Not enough sources responded (" \o ToString(Len(prices))
                      \o "/" \o ToString(data_req.min_sources_num)
                      \o "). Errors: " \o Join(errs, ", "))))
        ELSE IF numeric /\ RGt(deviation, max_dev)
        THEN Returned(DataResponse(data_req.id, None,
                 Some("Price deviation too high: " \o FormatFixed(deviation, 2)
                      \o "% (max: " \o FormatFixed(max_dev, 2) \o "%)")))
        ELSE IF numeric /\ ~aggregated.ok
        THEN Returned(DataResponse(data_req.id, None,
                 Some("Aggregation failed: " \o aggregated.err)))
        ELSE IF ~numeric /\ Len(prices) = 0
        THEN Panicked
        ELSE Returned(DataResponse(data_req.id,
                 Some(PriceData(final_value, latest_timestamp, source_names)),
                 detailed_message))

\* what main() prints: the error text, or the OracleResponse
Printed(text) == [kind |-> "text", text |-> text, results |-> <<>>]
OracleResponse(responses) ==
    [kind |-> "OracleResponse", text |-> "", results |-> responses]

\* the batches main() reads: up to MaxBatchSize requests of one source each
MainRequests(i) ==
    {DataRequest("t" \o ToString(i), <<Binance>>, "Average", 1),
     DataRequest("t" \o ToString(i), <<Kucoin>>, "Average", 0)}

RECURSIVE MainBatchesOfLen(_)
MainBatchesOfLen(n) ==
    IF n = 0 THEN {<<>>}
    ELSE {Append(b, q) : b \in MainBatchesOfLen(n - 1), q \in MainRequests(n)}

MainBatches == UNION {MainBatchesOfLen(n) : n \in 0..MaxBatchSize}

InitMain ==
    /\ requests \in MainBatches
    /\ max_deviation \in Deviations
    /\ config = [max_concurrent_requests |-> 1, request_timeout_secs |-> RequestTimeoutSecs]
    /\ Start
    /\ run = 1
    /\ prev_results = None
    /\ NoFunctionCall
    /\ seq_pc = "validate"
    /\ seq_i = 1
    /\ seq_calls = 0
    /\ data_responses = <<>>
    /\ stdout = None

parallel_vars == <<main_vars, w_pc, fetch_vars, out_vars, batch_vars>>

\* a variant of the size check with >=
MainValidate_ge ==
    /\ seq_pc = "validate"
    /\ IF Len(requests) >= MAX_TOKENS_PER_REQUEST
       THEN /\ stdout' = Some(Printed("Too many tokens requested: "
                                      \o ToString(Len(requests)) \o " (max: "
                                      \o ToString(MAX_TOKENS_PER_REQUEST) \o ")"))
            /\ seq_pc' = "exit"
       ELSE /\ seq_pc' = IF Len(requests) = 0 THEN "output" ELSE "loop"
            /\ UNCHANGED stdout
    /\ UNCHANGED <<requests, max_deviation, config, rerun_vars, fn_vars, parallel_vars,
                   seq_i, seq_calls, data_responses>>

\* if request.requests.len() > MAX_TOKENS_PER_REQUEST { print!(error); return Ok(()) }
MainValidate ==
    /\ seq_pc = "validate"
    /\ IF Len(requests) > MAX_TOKENS_PER_REQUEST
       THEN /\ stdout' = Some(Printed("Too many tokens requested: "
                                      \o ToString(Len(requests)) \o " (max: "
                                      \o ToString(MAX_TOKENS_PER_REQUEST) \o ")"))
            /\ seq_pc' = "exit"
       ELSE /\ seq_pc' = IF Len(requests) = 0 THEN "output" ELSE "loop"
            /\ UNCHANGED stdout
    /\ UNCHANGED <<requests, max_deviation, config, rerun_vars, fn_vars, parallel_vars,
                   seq_i, seq_calls, data_responses>>

\* for data_req in request.requests { data_responses.push(process_data_request(..)) }
MainProcess ==
    /\ seq_pc = "loop"
    /\ seq_calls' = seq_calls + Len(requests[seq_i].sources)
    /\ LET out == process_data_request(requests[seq_i], max_deviation)
       IN  IF out.panicked
           THEN /\ seq_pc' = "panicked"
                /\ UNCHANGED <<seq_i, data_responses>>
           ELSE /\ data_responses' = Append(data_responses, out.response)
                /\ seq_i' = seq_i + 1
                /\ seq_pc' = IF seq_i = Len(requests) THEN "output" ELSE "loop"
    /\ UNCHANGED <<requests, max_deviation, config, rerun_vars, fn_vars, parallel_vars,
                   stdout>>

\* print!("{}", serde_json::to_string(&OracleResponse { results: data_responses }))
MainOutput ==
    /\ seq_pc = "output"
    /\ stdout' = Some(OracleResponse(data_responses))
    /\ seq_pc' = "exit"
    /\ UNCHANGED <<requests, max_deviation, config, rerun_vars, fn_vars, parallel_vars,
                   seq_i, seq_calls, data_responses>>

NextMain == MainValidate \/ MainProcess \/ MainOutput

SpecMain == InitMain /\ [][NextMain]_vars

(***************************************************************************)
(* one request given to both pipelines: process_data_request of main.rs    *)
(* and fetch_prices_parallel + process_fetched_data of parallel.rs under   *)
(* max_concurrent_requests = 1, no lookup taking longer than the timeout   *)
(***************************************************************************)
EquivSources == {Binance, Huobi, Kucoin, CustomBoolean, CustomOwner, ForexEur}
EquivBatches == RequestBatchesOf(EquivSources)

InitBoth ==
    /\ requests \in EquivBatches
    /\ max_deviation \in Deviations
    /\ config = [max_concurrent_requests |-> 1, request_timeout_secs |-> RequestTimeoutSecs]
    /\ Start
    /\ run = 1
    /\ prev_results = None
    /\ NoFunctionCall
    /\ seq_pc = "loop"
    /\ seq_i = 1
    /\ seq_calls = 0
    /\ data_responses = <<>>
    /\ stdout = None

NextBoth == Next \/ MainProcess \/ MainOutput

SpecBoth == InitBoth /\ [][NextBoth]_vars

(***************************************************************************)
(* Properties                                                              *)
(***************************************************************************)
Done == main_pc = "done"

\* C1: when process_data_requests_parallel has returned, the response at
\* every position i of its result carries the id of the request submitted at
\* position i, whatever the completion order of the workers.
C1_SubmissionOrder ==
    Done => \A i \in 1..Len(sorted_results) : sorted_results[i].id = requests[i].id

\* C4: the batch output holds exactly one DataResponse per DataRequest: the
\* output is as long as the input and response i carries the id of request i,
\* whatever the outcome of each request.
C4_OneResponsePerRequest ==
    Done => /\ Len(sorted_results) = Len(requests)
            /\ \A i \in 1..Len(requests) :
                   \E j \in 1..Len(sorted_results) : sorted_results[j].id = requests[i].id

\* lookup threads of request r that were spawned and have not ended
InFlight(r) == {s \in SourcesOf(r) : lk[r][s] \in {"running", "fetched", "locked"}}

\* fetch_prices_parallel of request r has returned
Fetched(r) == w_pc[r] \in {"process", "respond", "locked", "done", "panicked"}

Occurrences(x, seq) == Cardinality({i \in 1..Len(seq) : seq[i] = x})

TimeoutMessage(name) ==
    name \o ": Request timeout after " \o ToString(config.request_timeout_secs) \o " seconds"

\* C2: at every instant at most max_concurrent_requests lookups of one
\* request are in flight.
C2_BoundedInFlight ==
    \A r \in Workers : Cardinality(InFlight(r)) <= config.max_concurrent_requests

\* C2 witness: a request with more sources than the cap has as many lookups
\* in flight as the cap allows, the cap being 2 or more.
C2_Witness ==
    \E r \in Workers :
        /\ config.max_concurrent_requests >= 2
        /\ Len(requests[r].sources) > config.max_concurrent_requests
        /\ Cardinality(InFlight(r)) = config.max_concurrent_requests

\* C3: when fetch_prices_parallel returns, every SourceSpec is represented
\* exactly once across source_prices and errors: the two lengths add up to
\* the number of sources and every lookup outcome occurs as often as there
\* are sources with that outcome.
C3_EverySourceOnce ==
    \A r \in Workers :
        Fetched(r) =>
            /\ Len(source_prices[r]) + Len(errors[r]) = Len(requests[r].sources)
            /\ \A s \in SourcesOf(r) :
                   LET out(t) == lookup_result(requests[r].sources[t], requests[r].id,
                                               config.request_timeout_secs)
                       same   == Cardinality({t \in SourcesOf(r) : out(t) = out(s)})
                   IN  IF out(s).ok
                       THEN Occurrences(out(s).price, source_prices[r]) = same
                       ELSE Occurrences(out(s).err, errors[r]) = same

\* C3 witness: a fetch of three sources under a cap of 2 has returned with
\* successes and failures.
C3_Witness ==
    \E r \in Workers :
        /\ Fetched(r)
        /\ config.max_concurrent_requests = 2
        /\ Len(requests[r].sources) = 3
        /\ Len(source_prices[r]) >= 1
        /\ Len(errors[r]) >= 1

\* C5: with fewer successful readings than min_sources_num the response has
\* no data and its message reports "<successes>/<required>" followed by all
\* failure messages joined with ", "; with at least min_sources_num the
\* response is not the quorum failure.
C5_Quorum ==
    \A r \in Workers :
        response[r] # None =>
            LET n       == Len(source_prices[r])
                m       == requests[r].min_sources_num
                failure == DataResponse(requests[r].id, None,
                               Some("Not enough sources responded (" \o ToString(n) \o "/"
                                    \o ToString(m) \o "). Errors: "
                                    \o Join(errors[r], ", ")))
            IN  (n < m) <=> (response[r][1] = failure)

\* C5 witness: one success of three sources with min_sources_num = 2.
C5_Witness ==
    \E r \in Workers :
        /\ response[r] # None
        /\ Len(requests[r].sources) = 3
        /\ requests[r].min_sources_num = 2
        /\ Len(source_prices[r]) = 1
        /\ response[r][1].data = None
        /\ response[r][1].message =
               Some("Not enough sources responded (1/2). Errors: "
                    \o "kucoin: HTTP 500, pyth: Request timeout after 1 seconds")

\* C6: on the numeric path (quorum met, some reading numeric) the request
\* fails exactly when deviation > max_deviation; the failure carries no data
\* and the message "Price deviation too high: ...".
C6_DeviationGuard ==
    \A r \in Workers :
        (/\ response[r] # None
         /\ Len(source_prices[r]) >= requests[r].min_sources_num
         /\ has_numeric(source_prices[r])) =>
            LET deviation == calculate_price_deviation(source_prices[r])
            IN  IF RGt(deviation, max_deviation)
                THEN response[r][1] =
                         DataResponse(requests[r].id, None,
                             Some("Price deviation too high: " \o FormatFixed(deviation, 2)
                                  \o "% (max: " \o FormatFixed(max_deviation, 2) \o "%)"))
                ELSE response[r][1].data # None

\* C6 witness: two numeric readings whose deviation equals the threshold
\* pass the guard.
C6_Witness ==
    \E r \in Workers :
        /\ response[r] # None
        /\ Len(numbers_of(source_prices[r])) = 2
        /\ calculate_price_deviation(source_prices[r]) = max_deviation
        /\ max_deviation = F(5)
        /\ response[r][1].data # None

\* C7: a lookup whose elapsed time exceeds request_timeout_secs is recorded
\* as the failure "<source>: Request timeout after <n> seconds" whether the
\* adapter returned a value or an error; its reading is never among the
\* successful readings and never counts toward the quorum.
C7_TimeoutIsFailure ==
    \A r \in Workers :
        LET slow(name) == elapsed_secs(name) > config.request_timeout_secs
            srcs       == requests[r].sources
        IN  /\ \A s \in SourcesOf(r) :
                   (fetch_result[r][s] # None /\ slow(srcs[s].name)) =>
                       /\ ~fetch_result[r][s][1].ok
                       /\ fetch_result[r][s][1].err = TimeoutMessage(srcs[s].name)
            /\ Fetched(r) =>
                   /\ \A i \in 1..Len(source_prices[r]) :
                          ~slow(source_prices[r][i].source_name)
                   /\ Len(source_prices[r]) <=
                          Cardinality({s \in SourcesOf(r) : ~slow(srcs[s].name)})
                   /\ \A s \in SourcesOf(r) :
                          slow(srcs[s].name) =>
                              Occurrences(TimeoutMessage(srcs[s].name), errors[r]) =
                                  Cardinality({t \in SourcesOf(r) : srcs[t].name = srcs[s].name})

\* C7 witness: an adapter that returned a reading after the timeout is
\* recorded as a timeout next to a successful reading.
C7_Witness ==
    \E r \in Workers :
        /\ Fetched(r)
        /\ \E s \in SourcesOf(r) :
               /\ requests[r].sources[s].name = "pyth"
               /\ fetch_price_with_config("pyth", requests[r].id, None, None).ok
        /\ Occurrences("pyth: Request timeout after 1 seconds", errors[r]) = 1
        /\ Len(source_prices[r]) = 1

\* C9: a request whose single source succeeds with Boolean true yields the
\* Boolean true as result value, passed through verbatim, and a message
\* without aggregation label.
C9_BooleanPassthrough ==
    \A r \in Workers :
        (/\ response[r] # None
         /\ RLe(F(0), max_deviation)
         /\ requests[r].min_sources_num <= 1
         /\ Len(requests[r].sources) = 1
         /\ source_prices[r] = <<SourcePrice("custom", Boolean(TRUE), 50)>>) =>
            /\ response[r][1].data # None
            /\ response[r][1].data[1].value = Boolean(TRUE)
            /\ response[r][1].message = None

SameElements(a, b) ==
    /\ Len(a) = Len(b)
    /\ \A i \in 1..Len(a) : Occurrences(a[i], a) = Occurrences(a[i], b)

\* C8 as stated: the pipeline re-run on the same batch with the same adapter
\* double returns identical DataResponse content, for every scheduling.
C8_RerunIdentical ==
    (Done /\ run = 2) => sorted_results = prev_results[1]

\* C8 amended: the re-run returns as many responses with the same ids, the
\* same presence of data, the same timestamp, the same source names up to
\* order and, for Median or at most two numeric readings, the same numeric
\* value; with max_concurrent_requests = 1 the responses are identical.
C8_RerunUpToCompletionOrder ==
    (Done /\ run = 2) =>
        LET a == prev_results[1]
            b == sorted_results
        IN  /\ Len(a) = Len(b)
            /\ \A i \in 1..Len(a) :
                   /\ a[i].id = b[i].id
                   /\ (a[i].data = None) <=> (b[i].data = None)
                   /\ a[i].data # None =>
                          /\ a[i].data[1].timestamp = b[i].data[1].timestamp
                          /\ SameElements(a[i].data[1].sources, b[i].data[1].sources)
                          /\ (/\ has_numeric(source_prices[i])
                              /\ \/ requests[i].aggregation_method = "Median"
                                 \/ Len(numbers_of(source_prices[i])) <= 2)
                                 => a[i].data[1].value = b[i].data[1].value
            /\ config.max_concurrent_requests = 1 => a = b

\* C8 witness: a re-run under a cap of 2 has returned data whose source
\* names are those of the first run in another order.
C8_Witness ==
    /\ Done
    /\ run = 2
    /\ config.max_concurrent_requests = 2
    /\ Len(sorted_results) = 1
    /\ sorted_results[1].data # None
    /\ prev_results[1][1].data # None
    /\ sorted_results[1].data[1].sources # prev_results[1][1].data[1].sources

\* the numeric values of a vector of prices, by position
NumericPositions(prices) == {i \in 1..Len(prices) : prices[i].value.tag # "Text"}
NumericAt(prices, i) ==
    IF prices[i].value.tag = "Number" THEN prices[i].value.num
    ELSE IF prices[i].value.bool THEN F(1) ELSE F(0)

\* C10: calculate_price_deviation, over the as_number values (Text skipped),
\* returns 0 for fewer than 2 numeric values, 100 when the minimum is 0 and
\* (max - min) / min * 100 otherwise; [100, 105] gives 5, and 100 exceeds
\* every threshold below 100.
C10_Deviation ==
    fn_deviation # None =>
        LET P        == NumericPositions(fn_prices)
            lo       == CHOOSE i \in P : \A j \in P : RLe(NumericAt(fn_prices, i),
                                                          NumericAt(fn_prices, j))
            hi       == CHOOSE i \in P : \A j \in P : RLe(NumericAt(fn_prices, j),
                                                          NumericAt(fn_prices, i))
            min      == NumericAt(fn_prices, lo)
            max      == NumericAt(fn_prices, hi)
            expected == IF Cardinality(P) < 2 THEN F(0)
                        ELSE IF min = F(0) THEN F(100)
                        ELSE RMul(RDiv(RSub(max, min), min), F(100))
        IN  /\ fn_deviation[1] = expected
            /\ ([i \in 1..Len(fn_prices) |-> fn_prices[i].value]
                    = <<Number(F(100)), Number(F(105))>>) => fn_deviation[1] = F(5)
            /\ fn_deviation[1] = F(100) =>
                   \A t \in {F(-1), F(0), F(5), F(99), Rat(9999, 100)} :
                       deviation_failed(fn_deviation[1], t)

\* C10 witness: the readings [0, 5] give the deviation 100.
C10_Witness ==
    /\ [i \in 1..Len(fn_prices) |-> fn_prices[i].value] = <<Number(F(0)), Number(F(5))>>
    /\ fn_deviation = Some(F(100))

\* C11: a request with exactly one numeric reading among its successful
\* readings, its quorum met, never fails the deviation guard: its response
\* carries data, whatever max_price_deviation_percent the batch carries.
C11_SingleNumericPasses ==
    \A r \in Workers :
        (/\ response[r] # None
         /\ Len(source_prices[r]) >= requests[r].min_sources_num
         /\ Len(numbers_of(source_prices[r])) = 1) =>
            /\ response[r][1].data # None
            /\ response[r][1].data[1].value = Number(numbers_of(source_prices[r])[1])

ValuesOf(prices) == [i \in 1..Len(prices) |-> prices[i].value]

\* how many numeric values of prices are below x, and how many are not above
CountBelow(prices, x) ==
    Cardinality({i \in NumericPositions(prices) : RLt(NumericAt(prices, i), x)})
CountNotAbove(prices, x) ==
    Cardinality({i \in NumericPositions(prices) : RLe(NumericAt(prices, i), x)})

\* the k-th smallest numeric value of prices (k from 1), whatever their order
OrderStatistic(prices, k) ==
    LET i == CHOOSE j \in NumericPositions(prices) :
                 /\ CountBelow(prices, NumericAt(prices, j)) < k
                 /\ k <= CountNotAbove(prices, NumericAt(prices, j))
    IN  NumericAt(prices, i)

\* prices with its first two elements exchanged, and rotated by one: the
\* two rearrangements that generate every reordering
SwapFirstTwo(prices) ==
    IF Len(prices) < 2 THEN prices
    ELSE <<prices[2], prices[1]>> \o SubSeq(prices, 3, Len(prices))
RotateByOne(prices) ==
    IF Len(prices) < 2 THEN prices ELSE Tail(prices) \o <<prices[1]>>

\* C12: for readings with at least one numeric value, in any order, Median
\* returns the middle element of the ascending order for an odd count and
\* the mean of the two middle elements for an even count ([1,2,3] gives 2,
\* [1,2,3,4] gives 2.5); reordering the readings leaves the result unchanged.
C12_Median ==
    (/\ fn_aggregate # None
     /\ fn_method = "Median"
     /\ NumericPositions(fn_prices) # {}) =>
        LET n        == Cardinality(NumericPositions(fn_prices))
            expected == IF n % 2 = 1
                        THEN OrderStatistic(fn_prices, (n + 1) \div 2)
                        ELSE RDiv(RAdd(OrderStatistic(fn_prices, n \div 2),
                                       OrderStatistic(fn_prices, n \div 2 + 1)), F(2))
        IN  /\ fn_aggregate[1] = Ok(expected)
            /\ aggregate_prices(SwapFirstTwo(fn_prices), "Median") = fn_aggregate[1]
            /\ aggregate_prices(RotateByOne(fn_prices), "Median") = fn_aggregate[1]
            /\ ValuesOf(fn_prices) = <<Number(F(1)), Number(F(2)), Number(F(3))>>
                   => fn_aggregate[1] = Ok(F(2))
            /\ ValuesOf(fn_prices) =
                   <<Number(F(1)), Number(F(2)), Number(F(3)), Number(F(4))>>
                   => fn_aggregate[1] = Ok(Rat(5, 2))

\* C12 witness: the readings [4, 1, 3, 2], not in ascending order, give 2.5.
C12_Witness ==
    /\ fn_method = "Median"
    /\ ValuesOf(fn_prices) = <<Number(F(4)), Number(F(1)), Number(F(3)), Number(F(2))>>
    /\ fn_aggregate = Some(Ok(Rat(5, 2)))

\* the sum of the numeric values of prices at the positions P
RECURSIVE SumOver(_, _)
SumOver(prices, P) ==
    IF P = {} THEN F(0)
    ELSE LET i == CHOOSE j \in P : TRUE
         IN  RAdd(NumericAt(prices, i), SumOver(prices, P \ {i}))

Mean(prices) ==
    RDiv(SumOver(prices, NumericPositions(prices)),
         F(Cardinality(NumericPositions(prices))))

\* C13: for readings with at least one numeric value, Average returns the
\* arithmetic mean of the numeric values, a Boolean counting as 1 or 0 and
\* Text being left out ([10,20,30] gives 20), and WeightedAvg returns what
\* Average returns on the same readings.
C13_Average ==
    (/\ fn_aggregate # None
     /\ fn_method \in {"Average", "WeightedAvg"}
     /\ NumericPositions(fn_prices) # {}) =>
        /\ fn_aggregate[1] = Ok(Mean(fn_prices))
        /\ fn_method = "WeightedAvg" =>
               fn_aggregate[1] = aggregate_prices(fn_prices, "Average")
        /\ ValuesOf(fn_prices) = <<Number(F(10)), Number(F(20)), Number(F(30))>>
               => fn_aggregate[1] = Ok(F(20))

\* C13 witness: WeightedAvg of [10, true, "alice.near", 30] is 41/3.
C13_Witness ==
    /\ fn_method = "WeightedAvg"
    /\ ValuesOf(fn_prices) =
           <<Number(F(10)), Boolean(TRUE), Text("alice.near"), Number(F(30))>>
    /\ fn_aggregate = Some(Ok(Rat(41, 3)))

\* the sources of request r whose lookup ends as a failure
FailingSources(r) ==
    {s \in SourcesOf(r) : ~lookup_result(requests[r].sources[s], requests[r].id,
                                         config.request_timeout_secs).ok}

\* C14: within one run fetch_price_with_config is called at most once for
\* every source of a request, and exactly once by the time
\* fetch_prices_parallel returns; a lookup that failed or timed out is not
\* called again and contributes one entry to errors.
C14_InvokedOnce ==
    \A r \in Workers :
        /\ \A s \in SourcesOf(r) :
               adapter_calls[r][s] = IF lk[r][s] \in {"idle", "running"} THEN 0 ELSE 1
        /\ Fetched(r) =>
               /\ \A s \in SourcesOf(r) : adapter_calls[r][s] = 1
               /\ Len(errors[r]) = Cardinality(FailingSources(r))

\* C14 witness: a fetch has returned after an adapter error and a timeout,
\* each source called once and two failures recorded.
C14_Witness ==
    \E r \in Workers :
        /\ Fetched(r)
        /\ \E s, t \in SourcesOf(r) :
               /\ requests[r].sources[s].name = "kucoin"
               /\ requests[r].sources[t].name = "pyth"
               /\ adapter_calls[r][s] = 1
               /\ adapter_calls[r][t] = 1
        /\ errors[r] = <<"kucoin: HTTP 500", "pyth: Request timeout after 1 seconds">>

\* the middle of the numeric values of prices by rank
MiddleByRank(prices) ==
    LET n == Cardinality(NumericPositions(prices))
    IN  IF n % 2 = 1 THEN OrderStatistic(prices, (n + 1) \div 2)
        ELSE RDiv(RAdd(OrderStatistic(prices, n \div 2),
                       OrderStatistic(prices, n \div 2 + 1)), F(2))

\* the readings of the Ok entries of the collector of request r, in the
\* order in which the lookups pushed them
Collected(r) ==
    LET ok == {i \in 1..Len(results[r]) : results[r][i].ok}
        RECURSIVE take(_)
        take(i) == IF i > Len(results[r]) THEN <<>>
                   ELSE (IF i \in ok THEN <<results[r][i].price>> ELSE <<>>) \o take(i + 1)
    IN  take(1)

\* the response of request r carries data computed on the numeric path
NumericSuccess(r) ==
    /\ response[r] # None
    /\ response[r][1].data # None
    /\ NumericPositions(source_prices[r]) # {}

\* C15: on a successful numeric-path request the data has value = the
\* aggregate (by the request's method) of the numeric values of all
\* successful readings, one per successful lookup, same-named sources
\* included and Text left out; timestamp = the maximum timestamp over all
\* successful readings, numeric or not; sources = the source names of the
\* successful readings in the order they were collected.
C15_NumericResult ==
    \A r \in Workers :
        NumericSuccess(r) =>
            LET p        == Collected(r)
                d        == response[r][1].data[1]
                expected == IF requests[r].aggregation_method = "Median"
                            THEN MiddleByRank(p) ELSE Mean(p)
            IN  /\ Len(p) = Cardinality(SourcesOf(r) \ FailingSources(r))
                /\ d.value = Number(expected)
                /\ \A i \in 1..Len(p) : p[i].timestamp <= d.timestamp
                /\ \E i \in 1..Len(p) : p[i].timestamp = d.timestamp
                /\ d.sources = [i \in 1..Len(p) |-> p[i].source_name]

\* C15 witness: the sources [binance, custom, huobi] under a cap of 2, the
\* text reading collected first: the average of 100 and 105, the timestamp
\* of the text reading, the names in collection order.
C15_Witness ==
    \E r \in Workers :
        /\ NumericSuccess(r)
        /\ requests[r].aggregation_method = "Average"
        /\ [s \in SourcesOf(r) |-> requests[r].sources[s].name]
               = <<"binance", "custom", "huobi">>
        /\ response[r][1].data[1] =
               PriceData(Number(Rat(205, 2)), 60, <<"custom", "binance", "huobi">>)

\* C16: on a successful numeric-path request the message is the per-source
\* detail line with the aggregation label, followed by ". Errors: " and the
\* failures when there are any, if and only if more than one numeric reading
\* contributed; with a single numeric reading it is the failures joined with
\* ", ", or absent when there are none.
C16_DetailIffSeveralNumeric ==
    \A r \in Workers :
        NumericSuccess(r) =>
            LET p      == source_prices[r]
                e      == errors[r]
                detail == Join(source_details(p), ", ") \o ", "
                              \o aggregation_label(requests[r].aggregation_method) \o ": "
                              \o FormatFixed(response[r][1].data[1].value.num, 6)
            IN  IF Len(numbers_of(p)) > 1
                THEN response[r][1].message =
                         Some(IF e # <<>> THEN detail \o ". Errors: " \o Join(e, ", ")
                              ELSE detail)
                ELSE response[r][1].message =
                         (IF e # <<>> THEN Some(Join(e, ", ")) ELSE None)

\* process_fetched_data of request r has been called and has ended
Processed(r) == w_pc[r] \in {"respond", "locked", "done", "panicked"}

C18_ExecuteAndCollect ==
    /\ \A r \in Workers :
           IF Fetched(r)
           THEN /\ \A s \in SourcesOf(r) : lk[r][s] = "done"
                /\ Len(results[r]) = Len(requests[r].sources)
                /\ Len(source_prices[r]) + Len(errors[r]) = Len(requests[r].sources)
           ELSE source_prices[r] = <<>> /\ errors[r] = <<>>
    /\ IF Done
       THEN /\ \A r \in Workers : w_pc[r] \in {"done", "panicked"}
            /\ \A r \in Workers :
                   w_pc[r] = "done" => Occurrences(response[r][1], sorted_results) >= 1
       ELSE sorted_results = <<>>

\* C18 witness: a batch of two requests has returned; one request had the
\* sources [pyth, binance] under a cap of 2, and the late lookup of pyth,
\* pushed after the reading of binance, is in the collector.
C18_Witness ==
    /\ Done
    /\ Len(requests) = 2
    /\ Len(sorted_results) = 2
    /\ \E r \in Workers :
           /\ requests[r].sources = <<Pyth, Binance>>
           /\ Len(results[r]) = 2
           /\ results[r][1].ok
           /\ results[r][2] = FetchErr("pyth: Request timeout after 1 seconds")

\* a sequence grows by at most one element at its end
AppendedTo(old, new) ==
    \/ new = old
    \/ Len(new) = Len(old) + 1 /\ SubSeq(new, 1, Len(old)) = old

\* every lock is held by the one unit that is at its append step
LocksExclusive ==
    /\ \A r \in Workers :
           /\ results_lock[r] # 0 =>
                  results_lock[r] \in SourcesOf(r) /\ lk[r][results_lock[r]] = "locked"
           /\ \A s \in SourcesOf(r) : lk[r][s] = "locked" => results_lock[r] = s
    /\ batch_lock # 0 => batch_lock \in Workers /\ w_pc[batch_lock] = "locked"
    /\ \A r \in Workers : w_pc[r] = "locked" => batch_lock = r

\* the collectors only grow by appends, until the caller drains the batch
\* collector after the joins
CollectorsAppendOnly ==
    /\ \A r \in Workers : AppendedTo(results[r], results'[r])
    /\ \/ AppendedTo(batch_results, batch_results')
       \/ main_pc = "sort" /\ batch_results' = <<>>

\* C19: each collector's lock is mutually exclusive and held only by a unit
\* at its append step, never by a lookup thread whose adapter call is in
\* progress nor by a worker that is fetching or aggregating; while units
\* run a collector is only appended to.
C19_LockDiscipline == []LocksExclusive /\ [][CollectorsAppendOnly]_vars

\* C19 witness: a lookup thread holds the lock of its request's collector,
\* which already has an entry, while another lookup of the request is still
\* in its adapter call and the worker of the other request holds the lock
\* of the batch collector.
C19_Witness ==
    \E r, q \in Workers :
        /\ r # q
        /\ \E s, t \in SourcesOf(r) :
               /\ results_lock[r] = s
               /\ lk[r][t] = "running"
        /\ batch_lock = q

\* C20: the response of a request is determined by the request, the batch
\* parameters and the outcomes of its own lookups as its own collector
\* holds them; the outcomes of the other requests of the batch, a failure
\* or a crash of their worker included, leave it unchanged and leave it in
\* the output.
C20_RequestLocal ==
    \A r \in Workers :
        /\ response[r] # None =>
               response[r][1] =
                   process_fetched_data(requests[r], Collected(r),
                                        collect_errors(results[r]), max_deviation).response
        /\ (Done /\ response[r] # None) =>
               \E j \in 1..Len(sorted_results) : sorted_results[j] = response[r][1]

\* C20 witness: in a batch of two the worker of the first request crashed
\* and the second request, with a reading and a failure of its own, has its
\* response with data in the output.
C20_Witness ==
    /\ Done
    /\ Len(requests) = 2
    /\ w_pc[1] = "panicked"
    /\ requests[2].sources = <<Pyth, Binance>>
    /\ sorted_results =
           <<DataResponse("btc", Some(PriceData(Number(F(100)), 10, <<"binance">>)),
                          Some("pyth: Request timeout after 1 seconds"))>>

AggregationFailures ==
    {Some("Aggregation failed: " \o e) :
        e \in {"No prices to aggregate", "No numeric values to aggregate"}}

\* C21: whenever the successful readings of a request hold a numeric value,
\* aggregate_prices returns a value for every aggregation method, and no
\* response carries an "Aggregation failed" message.
C21_NoAggregationError ==
    \A r \in Workers :
        /\ (Fetched(r) /\ has_numeric(source_prices[r])) =>
               \A method \in AggregationMethod :
                   aggregate_prices(source_prices[r], method).ok
        /\ response[r] # None => response[r][1].message \notin AggregationFailures

\* C21 witness: a single Boolean reading takes the numeric path under
\* Median and the response carries the aggregated number.
C21_Witness ==
    \E r \in Workers :
        /\ response[r] # None
        /\ requests[r].aggregation_method = "Median"
        /\ source_prices[r] = <<SourcePrice("custom", Boolean(TRUE), 50)>>
        /\ response[r][1].data = Some(PriceData(Number(F(1)), 50, <<"custom">>))

\* C22: a batch of more than MAX_TOKENS_PER_REQUEST (10) requests is
\* rejected before any source lookup: main() prints the error, makes no
\* call of an adapter and produces no response; a batch of exactly 10 is
\* accepted: its requests are processed and, unless the run crashes, their
\* responses are printed.
C22_BatchSizeCap ==
    /\ MAX_TOKENS_PER_REQUEST = 10
    /\ Len(requests) > 10 =>
           /\ seq_calls = 0
           /\ data_responses = <<>>
           /\ seq_pc \in {"validate", "exit"}
           /\ seq_pc = "exit" =>
                  stdout = Some(Printed("Too many tokens requested: "
                                        \o ToString(Len(requests)) \o " (max: 10)"))
    /\ Len(requests) = 10 =>
           /\ seq_pc \in {"validate", "loop", "output", "exit", "panicked"}
           /\ seq_pc = "exit" =>
                  /\ seq_calls = 10
                  /\ stdout = Some(OracleResponse(data_responses))
                  /\ Len(data_responses) = 10
                  /\ \A i \in 1..10 : data_responses[i].id = requests[i].id

\* C22 witness: a batch of 11 requests has been rejected.
C22_Witness ==
    /\ Len(requests) = 11
    /\ seq_pc = "exit"
    /\ seq_calls = 0
    /\ stdout = Some(Printed("Too many tokens requested: 11 (max: 10)"))

QuorumFailure(r) ==
    DataResponse(requests[r].id, None,
        Some("Not enough sources responded (" \o ToString(Len(source_prices[r])) \o "/"
             \o ToString(requests[r].min_sources_num) \o "). Errors: "
             \o Join(errors[r], ", ")))

DeviationFailure(r) ==
    DataResponse(requests[r].id, None,
        Some("Price deviation too high: "
             \o FormatFixed(calculate_price_deviation(source_prices[r]), 2)
             \o "% (max: " \o FormatFixed(max_deviation, 2) \o "%)"))

\* the readings of request r disagree by more than the threshold
Deviating(r) ==
    /\ NumericPositions(source_prices[r]) # {}
    /\ RGt(calculate_price_deviation(source_prices[r]), max_deviation)

\* C23: the response is decided by the first failing condition in the order
\* quorum, numeric or passthrough branch, deviation, aggregation: with the
\* quorum not met it is the quorum failure, also when the successful
\* readings deviate by more than the threshold; with the quorum met and
\* deviating numeric readings it is the deviation failure; otherwise, with
\* a reading to return, it carries data.
C23_CheckOrder ==
    \A r \in Workers :
        response[r] # None =>
            IF Len(source_prices[r]) < requests[r].min_sources_num
            THEN response[r][1] = QuorumFailure(r)
            ELSE IF Deviating(r)
            THEN response[r][1] = DeviationFailure(r)
            ELSE response[r][1].data # None

\* C23 witness: two readings that deviate by 9900% under a quorum of 3: the
\* response is the quorum failure.
C23_Witness ==
    \E r \in Workers :
        /\ response[r] # None
        /\ requests[r].min_sources_num = 3
        /\ Len(source_prices[r]) = 2
        /\ Deviating(r)
        /\ response[r][1].message =
               Some("Not enough sources responded (2/3). Errors: kucoin: HTTP 500")

\* the response of request r carries data
Succeeded(r) == response[r] # None /\ response[r][1].data # None

ChunkOf(s) == (s - 1) \div config.max_concurrent_requests

\* C25: the lookups of a request start in the order of its sources, in
\* chunks of max_concurrent_requests consecutive sources, and no lookup of a
\* later chunk has started while a lookup of an earlier chunk has not
\* finished, be it only one.
C25_ChunkBarrier ==
    \A r \in Workers : \A s, t \in SourcesOf(r) :
        /\ (s < t /\ lk[r][t] # "idle") => lk[r][s] # "idle"
        /\ (ChunkOf(s) < ChunkOf(t) /\ lk[r][s] # "done") => lk[r][t] = "idle"

\* C25 witness: under a cap of 2 the first lookup of the first chunk has
\* finished, the second is still running and the third source waits.
C25_Witness ==
    \E r \in Workers :
        /\ config.max_concurrent_requests = 2
        /\ Len(requests[r].sources) >= 3
        /\ lk[r][1] = "done"
        /\ lk[r][2] = "running"
        /\ lk[r][3] = "idle"

\* C26: under fair scheduling, with every adapter call returning, the batch
\* run ends with one response for every request of the batch, all threads
\* ended and no mutex held.
C26_TerminatesWithFullOutput ==
    <>(/\ main_pc = "done"
       /\ Len(sorted_results) = Len(requests)
       /\ \A r \in Workers : w_pc[r] = "done" /\ results_lock[r] = 0
       /\ batch_lock = 0)

\* the id that source s of request r is to be looked up with
EffectiveId(r, s) ==
    IF requests[r].sources[s].id = None THEN requests[r].id
    ELSE requests[r].sources[s].id[1]

\* what exchangerate-api answers to a lookup with the id token_id
ForexAnswer(token_id) ==
    FetchErr("exchangerate-api: Invalid forex pair format: " \o token_id
                 \o ". Expected BASE/TARGET (e.g. EUR/USD)")

\* C27: every lookup calls the adapter with the id of its source when the
\* source names one and with the id of the request otherwise (read off the
\* answer of exchangerate-api, which repeats the id it was called with);
\* the id of every response, in the worker and in the output, is the id of
\* its request.
C27_EffectiveId ==
    /\ \A r \in Workers : \A s \in SourcesOf(r) :
           (fetch_result[r][s] # None /\ requests[r].sources[s].name = "exchangerate-api")
               => fetch_result[r][s][1] = ForexAnswer(EffectiveId(r, s))
    /\ \A r \in Workers : response[r] # None => response[r][1].id = requests[r].id
    /\ main_pc = "done" =>
           \A i \in 1..Len(sorted_results) :
               \E r \in Workers : sorted_results[i].id = requests[r].id

\* C27 witness: the request "btc" looks up exchangerate-api with the id
\* "EURUSD" of the source and again with its own id; its response names
\* both ids in the failures and carries the id "btc".
C27_Witness ==
    \E r \in Workers :
        /\ requests[r].id = "btc"
        /\ requests[r].sources = <<ForexEur, Forex>>
        /\ response[r] # None
        /\ response[r][1].id = "btc"
        /\ SameElements(errors[r],
               <<ForexAnswer("EURUSD").err, ForexAnswer("btc").err>>)

\* what the lookup of source s of request r ends with
Outcome(r, s) ==
    lookup_result(requests[r].sources[s], requests[r].id, config.request_timeout_secs)

\* the outcomes of all sources of request r in the order of the sources
OutcomesInSourceOrder(r) == [s \in SourcesOf(r) |-> Outcome(r, s)]

\* C28: the collector holds the outcomes chunk by chunk: the entry at
\* position i is the outcome of a source of the chunk that position i falls
\* in; with max_concurrent_requests = 1 the collector, the readings and the
\* failures follow the order of the sources, and the response is the one
\* computed from them, whatever the scheduling.
C28_ChunkOrder ==
    \A r \in Workers :
        /\ \A i \in 1..Len(results[r]) :
               \E s \in SourcesOf(r) :
                   ChunkOf(s) = ChunkOf(i) /\ results[r][i] = Outcome(r, s)
        /\ (config.max_concurrent_requests = 1 /\ Fetched(r)) =>
               /\ results[r] = OutcomesInSourceOrder(r)
               /\ source_prices[r] = collect_prices(OutcomesInSourceOrder(r))
               /\ errors[r] = collect_errors(OutcomesInSourceOrder(r))
               /\ response[r] # None =>
                      response[r][1] =
                          process_fetched_data(requests[r],
                              collect_prices(OutcomesInSourceOrder(r)),
                              collect_errors(OutcomesInSourceOrder(r)),
                              max_deviation).response

\* C28 witness: under a cap of 2 the sources [binance, kucoin, pyth] are
\* collected as kucoin, binance, pyth: the first chunk in completion order,
\* the second chunk after it.
C28_Witness ==
    \E r \in Workers :
        /\ config.max_concurrent_requests = 2
        /\ requests[r].sources = <<Binance, Kucoin, Pyth>>
        /\ results[r] = <<Outcome(r, 2), Outcome(r, 1), Outcome(r, 3)>>

\* fewer readings than min_sources_num were collected for request r
QuorumUnmet(r) == Len(source_prices[r]) < requests[r].min_sources_num

\* the aggregation of the numeric readings of request r fails
AggregationFails(r) ==
    /\ NumericPositions(source_prices[r]) # {}
    /\ ~aggregate_prices(source_prices[r], requests[r].aggregation_method).ok

\* C29: every response carries data or a message; it carries no data
\* exactly when the quorum is not met, the numeric readings deviate by more
\* than the threshold or their aggregation fails, and then it carries the
\* message of that failure.
C29_DataOrMessage ==
    \A r \in Workers :
        response[r] # None =>
            LET d == response[r][1].data
                m == response[r][1].message
            IN  /\ d # None \/ m # None
                /\ d = None <=> (QuorumUnmet(r) \/ Deviating(r) \/ AggregationFails(r))
                /\ d = None =>
                       /\ m # None
                       /\ \/ QuorumUnmet(r) /\ m = QuorumFailure(r).message
                          \/ ~QuorumUnmet(r) /\ Deviating(r) /\ m = DeviationFailure(r).message
                          \/ AggregationFails(r) /\ m \in AggregationFailures

\* C29 witness: binance and the boolean source answer 100 and 1 under a
\* quorum of 2: no data, and the message of the deviation failure.
C29_Witness ==
    \E r \in Workers :
        /\ response[r] # None
        /\ requests[r].min_sources_num = 2
        /\ Len(source_prices[r]) = 2
        /\ response[r][1].data = None
        /\ response[r][1].message = Some("Price deviation too high: 9900.00% (max: 5.00%)")

\* C30: process_fetched_data returns a response for every request, also
\* for min_sources_num = 0 with an empty or all-failing list of sources: no
\* worker ends in a panic, and the passthrough value is read only from a
\* non-empty sequence of readings.
C30_AlwaysResponds ==
    \A r \in Workers :
        /\ w_pc[r] # "panicked"
        /\ Processed(r) => response[r] # None

\* C31: calculate_price_deviation never returns a negative number, negative
\* readings included, so two or more numeric readings that are not all
\* equal fail the threshold 0.
C31_DeviationNonNegative ==
    fn_deviation # None =>
        LET P == NumericPositions(fn_prices)
        IN  /\ RLe(F(0), fn_deviation[1])
            /\ (\E i, j \in P : NumericAt(fn_prices, i) # NumericAt(fn_prices, j)) =>
                   deviation_failed(fn_deviation[1], F(0))

\* C32: for one request under max_concurrent_requests = 1 and no lookup
\* longer than the timeout, once both pipelines have processed it either
\* both have panicked or both have returned, and then the response of
\* process_data_request equals the one of fetch_prices_parallel followed by
\* process_fetched_data.
C32_SequentialEqualsParallel ==
    \A r \in Workers :
        (Processed(r) /\ seq_pc # "loop") =>
            IF w_pc[r] = "panicked" THEN seq_pc = "panicked"
            ELSE /\ seq_pc # "panicked"
                 /\ Len(data_responses) = Len(requests)
                 /\ data_responses[r] = response[r][1]

\* C32 witness: the sources [binance, kucoin, huobi] with a quorum of 2:
\* both pipelines return the average 102.5 with the failure of kucoin after
\* the detail line.
C32_Witness ==
    \E r \in Workers :
        /\ requests[r].sources = <<Binance, Kucoin, Huobi>>
        /\ requests[r].aggregation_method = "Average"
        /\ requests[r].min_sources_num = 2
        /\ response[r] # None
        /\ Len(data_responses) = 1
        /\ data_responses[r] = response[r][1]
        /\ data_responses[r].message =
               Some("binance: 100.000000, huobi: 105.000000, avg: 102.500000"
                    \o ". Errors: kucoin: HTTP 500")

\* the lookups in flight over the requests 1..n of the batch
RECURSIVE InFlightUpTo(_)
InFlightUpTo(n) ==
    IF n = 0 THEN 0 ELSE Cardinality(InFlight(n)) + InFlightUpTo(n - 1)

\* the sum over the requests 1..n of min(max_concurrent_requests, sources)
RECURSIVE CapUpTo(_)
CapUpTo(n) ==
    IF n = 0 THEN 0
    ELSE (IF Len(requests[n].sources) < config.max_concurrent_requests
          THEN Len(requests[n].sources) ELSE config.max_concurrent_requests)
             + CapUpTo(n - 1)

\* C33: over the whole batch the lookups in flight number at most the sum
\* over its requests of min(max_concurrent_requests, number of sources):
\* the cap bounds every request, not the batch.
C33_CapPerRequest ==
    InFlightUpTo(Len(requests)) <= CapUpTo(Len(requests))

\* C33 witness: two requests under a cap of 1 have two lookups in flight,
\* one each: the bound is reached and exceeds max_concurrent_requests.
C33_Witness ==
    /\ config.max_concurrent_requests = 1
    /\ Len(requests) = 2
    /\ InFlightUpTo(2) = CapUpTo(2)
    /\ InFlightUpTo(2) = 2
    /\ \A r \in Workers : Cardinality(InFlight(r)) = 1

====
